---- MODULE Spec2Model ----
(***************************************************************************)
(* Molecular docking evaluator: normalization -> composite scoring ->      *)
(* conformation ranking -> protein ranking (src/src/data/processor.py,     *)
(* src/src/core/metrics.py, scorer.py, ranker.py).                         *)
(*                                                                         *)
(* Floating point values are modelled as extended rationals <<n, d>>:      *)
(*   d > 0  : the finite number n/d in lowest terms                        *)
(*   <<0,0>>: NaN (pandas' absent value)                                   *)
(*   <<1,0>>, <<-1,0>>: +inf, -inf                                         *)
(* with IEEE-754 rules for NaN and the infinities. Rounding is not         *)
(* modelled: arithmetic on finite values is exact (common factors are      *)
(* cancelled before multiplying to keep the integers small).               *)
(***************************************************************************)
EXTENDS Integers, Sequences, FiniteSets, TLC

VARIABLES
    pc,            \* position of the pipeline run (the order of calls in run_cli)
    raw,           \* data: the merged table handed to preprocess_data
    config,        \* the global config's "scoring" section
    method,        \* run_cli: normalization_method, read when normalize_data is called
    selected,      \* run_cli: selected
    processor,     \* the DataProcessor object: [data, normalized_data]
    ranker,        \* the Ranker object: [conformation_ranking, protein_ranking]
    processed_data,        \* run_cli: the table returned by preprocess_data
    normalized_data,       \* run_cli: the table returned by normalize_data
    conformation_ranking,  \* run_cli: the list returned by rank_conformations
    protein_ranking,       \* run_cli: the list returned by rank_proteins
    col,           \* normalize_metric call: values, method and the returned column
    score,         \* calculate_composite_score call: arguments and the result
    call,          \* a stage called on its own: stage, argument and returned value
    heap,          \* the objects a caller shares by reference: tables, lists, dicts
    window,        \* the MainWindow object of the GUI
    threads,       \* the WorkerThread objects created so far, in creation order
    events         \* signals emitted by workers and not yet delivered to their slots

vars == <<pc, raw, config, method, selected, processor, ranker, processed_data,
          normalized_data, conformation_ranking, protein_ranking, col, score, call,
          heap, window, threads, events>>

guiVars == <<window, threads, events>>

pipeVars == <<pc, raw, config, method, selected, processor, ranker, processed_data,
              normalized_data, conformation_ranking, protein_ranking>>

-----------------------------------------------------------------------------
(* Extended rationals                                                      *)

NaN == <<0, 0>>
PosInf == <<1, 0>>
NegInf == <<-1, 0>>

Abs(a) == IF a < 0 THEN -a ELSE a
Sign(a) == IF a < 0 THEN -1 ELSE IF a > 0 THEN 1 ELSE 0

RECURSIVE GCD(_, _)
GCD(a, b) == IF b = 0 THEN a ELSE GCD(b, a % b)

\* n/d with d # 0, in lowest terms with a positive denominator
Frac(n, d) ==
    LET g == GCD(Abs(n), Abs(d))
        s == IF d < 0 THEN -1 ELSE 1
    IN  <<(s * n) \div g, Abs(d) \div g>>

Num(k) == <<k, 1>>
Zero == <<0, 1>>
One == <<1, 1>>

IsNaN(x) == x = NaN
IsInf(x) == x[2] = 0 /\ x[1] # 0
IsFinite(x) == x[2] > 0

FNeg(x) == <<-x[1], x[2]>>

FAdd(x, y) ==
    IF IsNaN(x) \/ IsNaN(y) THEN NaN
    ELSE IF IsFinite(x) /\ IsFinite(y)
         THEN LET g == GCD(x[2], y[2])
              IN  Frac(x[1] * (y[2] \div g) + y[1] * (x[2] \div g), (x[2] \div g) * y[2])
    ELSE IF IsInf(x) /\ IsInf(y) THEN (IF x = y THEN x ELSE NaN)
    ELSE IF IsInf(x) THEN x ELSE y

FSub(x, y) == FAdd(x, FNeg(y))

FMul(x, y) ==
    IF IsNaN(x) \/ IsNaN(y) THEN NaN
    ELSE IF IsFinite(x) /\ IsFinite(y)
         THEN LET g == GCD(Abs(x[1]), y[2])
                  h == GCD(Abs(y[1]), x[2])
              IN  Frac((x[1] \div g) * (y[1] \div h), (x[2] \div h) * (y[2] \div g))
    ELSE IF x[1] = 0 \/ y[1] = 0 THEN NaN
    ELSE <<Sign(x[1]) * Sign(y[1]), 0>>

\* numpy division: x/0 is NaN for x = 0 and a signed infinity otherwise
FDiv(x, y) ==
    IF IsNaN(x) \/ IsNaN(y) THEN NaN
    ELSE IF IsInf(x) /\ IsInf(y) THEN NaN
    ELSE IF IsInf(y) THEN Zero
    ELSE IF IsInf(x) THEN <<Sign(x[1]) * (IF y[1] < 0 THEN -1 ELSE 1), 0>>
    ELSE IF y[1] = 0 THEN (IF x[1] = 0 THEN NaN ELSE <<Sign(x[1]), 0>>)
    ELSE LET g == GCD(Abs(x[1]), Abs(y[1]))
             h == GCD(x[2], y[2])
         IN  Frac((x[1] \div g) * (y[2] \div h), (x[2] \div h) * (y[1] \div g))

\* comparisons: every comparison with NaN is false
FEq(x, y) == ~IsNaN(x) /\ ~IsNaN(y) /\ x = y

FLt(x, y) ==
    IF IsNaN(x) \/ IsNaN(y) THEN FALSE
    ELSE IF x = y THEN FALSE
    ELSE IF x = NegInf \/ y = PosInf THEN TRUE
    ELSE IF x = PosInf \/ y = NegInf THEN FALSE
    ELSE LET g == GCD(x[2], y[2])
         IN  x[1] * (y[2] \div g) < y[1] * (x[2] \div g)

FLe(x, y) == FLt(x, y) \/ FEq(x, y)

InUnit(x) == FLe(Zero, x) /\ FLe(x, One)

-----------------------------------------------------------------------------
(* Metric catalog (src/src/config.py)                                      *)

REQUIRED_METRICS ==
    <<"r_i_docking_score", "r_i_glide_gscore", "r_i_glide_emodel", "r_i_glide_energy">>

OPTIONAL_METRICS ==
    <<"r_i_glide_lipo", "r_i_glide_hbond", "r_i_glide_metal", "r_i_glide_rewards",
      "r_i_glide_evdw", "r_i_glide_ecoul", "r_i_glide_erotb", "r_i_glide_esite",
      "r_i_glide_einternal">>

DOCKING_METRICS == <<"r_i_docking_score", "r_i_glide_gscore">>

ENERGY_METRICS == <<"r_i_glide_emodel", "r_i_glide_energy">>

Range(s) == {s[i] : i \in 1..Len(s)}

-----------------------------------------------------------------------------
(* Normalizer (src/src/data/processor.py)                                  *)
(* A pandas Series is a function from its index labels to values.          *)

RECURSIVE FSum(_, _)
\* sum of f[i] over i in S
FSum(f, S) ==
    IF S = {} THEN Zero
    ELSE LET i == CHOOSE j \in S : TRUE
         IN  FAdd(f[i], FSum(f, S \ {i}))

\* values.dropna(): the index labels whose value is not NaN
NotNa(values) == {i \in DOMAIN values : ~IsNaN(values[i])}

\* Series.min() / Series.max() over a set of non-NaN values
FMin(S) == CHOOSE x \in S : \A y \in S : FLe(x, y)
FMax(S) == CHOOSE x \in S : \A y \in S : FLe(y, x)

\* Series.mean() of the non-NaN values
Mean(values, valid) == FDiv(FSum(values, valid), Num(Cardinality(valid)))

\* Series.std()**2 (sample variance, ddof = 1): NaN for a single value
Variance(values, valid) ==
    IF Cardinality(valid) <= 1 THEN NaN
    ELSE LET m == Mean(values, valid)
             sq == [i \in valid |-> FMul(FSub(values[i], m), FSub(values[i], m))]
         IN  FDiv(FSum(sq, valid), Num(Cardinality(valid) - 1))

\* 1000 * logistic(k/2) rounded, k = 0..10
LogisticTable == <<500, 622, 731, 818, 881, 924, 953, 971, 982, 989, 993>>

\* 1 / (1 + exp(-z)) where z has sign sg and square zsq (z = sg * sqrt(zsq)):
\* a monotone step approximation on half-unit buckets of |z|; exact at z = 0,
\* and 1.0 (resp. 0.0) once exp(-z) is below the float epsilon (|z| >= 37).
Sigmoid(sg, zsq) ==
    IF IsNaN(zsq) THEN NaN
    ELSE IF sg = 0 \/ zsq = Zero THEN Frac(1, 2)
    ELSE LET big == FLe(Num(37 * 37), zsq)
             k == CHOOSE j \in 0..10 :
                      /\ FLe(Frac(j * j, 4), zsq)
                      /\ (j = 10 \/ FLt(zsq, Frac((j + 1) * (j + 1), 4)))
             up == IF big THEN One ELSE Frac(LogisticTable[k + 1], 1000)
         IN  IF sg > 0 THEN up ELSE FSub(One, up)

\* [0.0 if pd.notna(v) else 1.0 for v in values]
Degenerate(values) == [i \in DOMAIN values |-> IF IsNaN(values[i]) THEN One ELSE Zero]

\* Series.fillna(x)
\* mutation of FillNa: the fillna step forgotten
FillNa_Forgotten(values, x) == values

FillNa(values, x) == [i \in DOMAIN values |-> IF IsNaN(values[i]) THEN x ELSE values[i]]

\* mutation of MinMax: the offset divided by max instead of by (max - min)
MinMax_DivByMax(values) ==
    LET valid == NotNa(values)
        S == {values[i] : i \in valid}
        min_val == FMin(S)
        max_val == FMax(S)
    IN  IF FEq(max_val, min_val) THEN Degenerate(values)
        ELSE FillNa([i \in DOMAIN values |-> FDiv(FSub(values[i], min_val), max_val)], One)

MinMax(values) ==
    LET valid == NotNa(values)
        S == {values[i] : i \in valid}
        min_val == FMin(S)
        max_val == FMax(S)
    IN  IF FEq(max_val, min_val) THEN Degenerate(values)
        ELSE FillNa([i \in DOMAIN values |->
                        FDiv(FSub(values[i], min_val), FSub(max_val, min_val))], One)

\* z = (values - mean) / std with NaN filled by 3.0, then the sigmoid
ZScore(values) ==
    LET valid == NotNa(values)
        mean == Mean(values, valid)
        var == Variance(values, valid)
    IN  IF FEq(var, Zero) THEN Degenerate(values)
        ELSE [i \in DOMAIN values |->
                LET dev == FSub(values[i], mean)
                    zsq == FDiv(FMul(dev, dev), var)
                IN  IF IsNaN(zsq) THEN Sigmoid(1, Num(9))
                    ELSE Sigmoid(Sign(dev[1]), zsq)]

\* mutation of normalize_metric: an unknown method handled as z-score
normalize_metric_UnknownAsZScore(values, m) ==
    IF NotNa(values) = {} THEN [i \in DOMAIN values |-> One]
    ELSE IF m = "min-max" THEN MinMax(values)
    ELSE ZScore(values)

\* DataProcessor.normalize_metric(values, method); an unknown method falls
\* back to the min-max branch
normalize_metric(values, m) ==
    IF NotNa(values) = {} THEN [i \in DOMAIN values |-> One]
    ELSE IF m = "min-max" THEN MinMax(values)
    ELSE IF m = "z-score" THEN ZScore(values)
    ELSE MinMax(values)

-----------------------------------------------------------------------------
(* Composite scorer (src/src/core/metrics.py)                              *)
(* A row is seen through its normalized columns: a function from the       *)
(* metrics that have a normalized_<metric> column to the cell's value.     *)

\* [m for m in metrics if pred], keeping the list order
RECURSIVE SelectWhere(_, _)
SelectWhere(metrics, S) ==
    IF metrics = <<>> THEN <<>>
    ELSE IF Head(metrics) \in S THEN <<Head(metrics)>> \o SelectWhere(Tail(metrics), S)
    ELSE SelectWhere(Tail(metrics), S)

\* mutation of WeightOf: a metric missing from the mapping weighs 0
WeightOf_DefaultZero(weights, metric) ==
    IF metric \in DOMAIN weights THEN weights[metric] ELSE Zero

\* weights.get(metric, 1.0)
WeightOf(weights, metric) == IF metric \in DOMAIN weights THEN weights[metric] ELSE One

get_normalized_value(row, metric) == IF metric \in DOMAIN row THEN row[metric] ELSE One

RECURSIVE WeightedSum(_, _, _)
WeightedSum(row, ms, weights) ==
    IF ms = <<>> THEN Zero
    ELSE FAdd(FMul(WeightOf(weights, Head(ms)), get_normalized_value(row, Head(ms))),
              WeightedSum(row, Tail(ms), weights))

RECURSIVE TotalWeight(_, _)
TotalWeight(ms, weights) ==
    IF ms = <<>> THEN Zero
    ELSE FAdd(WeightOf(weights, Head(ms)), TotalWeight(Tail(ms), weights))

calculate_weighted_score(row, metrics, weights) ==
    LET valid_metrics == SelectWhere(metrics, DOMAIN row)
    IN  IF valid_metrics = <<>> THEN One
        ELSE IF FEq(TotalWeight(valid_metrics, weights), Zero) THEN One
        ELSE FDiv(WeightedSum(row, valid_metrics, weights),
                  TotalWeight(valid_metrics, weights))

calculate_docking_score(row, weights) == calculate_weighted_score(row, DOCKING_METRICS, weights)

calculate_energy_score(row, weights) == calculate_weighted_score(row, ENERGY_METRICS, weights)

\* mutation of calculate_optional_score: has_optional decided by the normalized
\* columns of the row, not by the selection
calculate_optional_score_ByColumns(row, selected_metrics, weights) ==
    LET optional_metrics == SelectWhere(selected_metrics, Range(OPTIONAL_METRICS))
    IN  IF SelectWhere(optional_metrics, DOMAIN row) = <<>>
        THEN [score |-> Zero, has |-> FALSE]
        ELSE [score |-> calculate_weighted_score(row, optional_metrics, weights), has |-> TRUE]

\* the pair (optional score, has_optional)
calculate_optional_score(row, selected_metrics, weights) ==
    LET optional_metrics == SelectWhere(selected_metrics, Range(OPTIONAL_METRICS))
    IN  IF optional_metrics = <<>> THEN [score |-> Zero, has |-> FALSE]
        ELSE [score |-> calculate_weighted_score(row, optional_metrics, weights), has |-> TRUE]

\* mutation of calculate_composite_score: the two category weights are used as
\* configured when the optional category is absent, not redistributed
calculate_composite_score_NotRedistributed(row, selected_metrics, weights, docking_weight, energy_weight, optional_weight) ==
    LET docking_score == calculate_docking_score(row, weights)
        energy_score == calculate_energy_score(row, weights)
        opt == calculate_optional_score(row, selected_metrics, weights)
    IN  [st |-> "ok",
         total_score |-> FAdd(FAdd(FMul(docking_weight, docking_score),
                                   FMul(energy_weight, energy_score)),
                              IF opt.has THEN FMul(optional_weight, opt.score) ELSE Zero),
         docking_score |-> docking_score, energy_score |-> energy_score]

\* st = "raised": the division by docking_weight + energy_weight = 0 raises
\* ZeroDivisionError and nothing is returned
calculate_composite_score(row, selected_metrics, weights, docking_weight, energy_weight, optional_weight) ==
    LET docking_score == calculate_docking_score(row, weights)
        energy_score == calculate_energy_score(row, weights)
        opt == calculate_optional_score(row, selected_metrics, weights)
        den == FAdd(docking_weight, energy_weight)
    IN  IF opt.has
        THEN [st |-> "ok",
              total_score |-> FAdd(FAdd(FMul(docking_weight, docking_score),
                                        FMul(energy_weight, energy_score)),
                                   FMul(optional_weight, opt.score)),
              docking_score |-> docking_score, energy_score |-> energy_score]
        ELSE IF FEq(den, Zero)
        THEN [st |-> "raised", total_score |-> NaN,
              docking_score |-> docking_score, energy_score |-> energy_score]
        ELSE [st |-> "ok",
              total_score |-> FAdd(FMul(FDiv(docking_weight, den), docking_score),
                                   FMul(FDiv(energy_weight, den), energy_score)),
              docking_score |-> docking_score, energy_score |-> energy_score]

-----------------------------------------------------------------------------
(* Python built-ins used by the ranker                                     *)

\* a < b for key tuples: the first position where the elements are not equal
\* decides, by <; NaN is equal to nothing and less than nothing
RECURSIVE KeyLt(_, _)
KeyLt(a, b) ==
    IF a = <<>> \/ b = <<>> THEN a = <<>> /\ b # <<>>
    ELSE IF FEq(Head(a), Head(b)) THEN KeyLt(Tail(a), Tail(b))
    ELSE FLt(Head(a), Head(b))

RECURSIVE Reverse(_)
Reverse(s) == IF s = <<>> THEN <<>> ELSE Append(Reverse(Tail(s)), Head(s))

\* listobject.c count_run: length of the initial run, and whether it descends
RECURSIVE RunEnd(_, _, _)
RunEnd(s, i, desc) ==
    IF i >= Len(s) THEN i
    ELSE IF desc = KeyLt(s[i + 1].key, s[i].key) THEN RunEnd(s, i + 1, desc)
    ELSE i

\* listobject.c binarysort: the insertion point of pivot in s[l+1 .. r]
RECURSIVE BinSearch(_, _, _, _)
BinSearch(s, pivot, l, r) ==
    IF l >= r THEN l
    ELSE LET p == l + ((r - l) \div 2)
         IN  IF KeyLt(pivot.key, s[p + 1].key) THEN BinSearch(s, pivot, l, p)
             ELSE BinSearch(s, pivot, p + 1, r)

RECURSIVE BinarySort(_, _)
\* s[1..start] is sorted; insert s[start+1], s[start+2], ...
BinarySort(s, start) ==
    IF start >= Len(s) THEN s
    ELSE LET pivot == s[start + 1]
             l == BinSearch(s, pivot, 0, start)
             t == SubSeq(s, 1, l) \o <<pivot>> \o SubSeq(s, l + 1, start)
                      \o SubSeq(s, start + 2, Len(s))
         IN  BinarySort(t, start + 1)

\* list.sort(key=...) for lists shorter than 64: the initial run (reversed when
\* strictly descending) followed by binary insertion of the rest
PySort(s) ==
    IF Len(s) < 2 THEN s
    ELSE LET desc == KeyLt(s[2].key, s[1].key)
             n == RunEnd(s, 2, desc)
             t == IF desc
                  THEN Reverse(SubSeq(s, 1, n)) \o SubSeq(s, n + 1, Len(s))
                  ELSE s
         IN  BinarySort(t, n)

\* min(items, key=...): the first item that no later item is < than
RECURSIVE PyMin(_, _, _)
PyMin(items, i, best) ==
    IF i > Len(items) THEN best
    ELSE IF KeyLt(items[i].key, best.key) THEN PyMin(items, i + 1, items[i])
    ELSE PyMin(items, i + 1, best)

\* index of key k in an insertion-ordered dict (a sequence of records with a
\* field k), 0 when absent
DictIndex(d, k) ==
    IF \E i \in 1..Len(d) : d[i].k = k
    THEN CHOOSE i \in 1..Len(d) : d[i].k = k
    ELSE 0

\* d[k] = v: replaces the value in place, or appends a new key
DictPut(d, k, v) ==
    LET i == DictIndex(d, k)
    IN  IF i = 0 THEN Append(d, [k |-> k, v |-> v])
        ELSE [d EXCEPT ![i] = [k |-> k, v |-> v]]

-----------------------------------------------------------------------------
(* Tables (pandas DataFrames)                                              *)
(* A table is a sequence of rows; the index label of a row is its          *)
(* position. A row is [title, lignum, protein_name, vals, norm]: vals maps *)
(* each metric column to its cell, norm maps each metric that has a        *)
(* normalized_<metric> column to that cell. None and the empty DataFrame   *)
(* are both <<>>.                                                          *)

Columns(table) == IF table = <<>> THEN {} ELSE DOMAIN table[1].vals

special_value == 10000

\* helpers.handle_special_values(df, columns)
handle_special_values(df, columns) ==
    [i \in 1..Len(df) |->
        [df[i] EXCEPT !.vals =
            [m \in DOMAIN df[i].vals |->
                IF m \in Range(columns) /\ FEq(df[i].vals[m], Num(special_value))
                THEN NaN ELSE df[i].vals[m]]]]

\* mutation of preprocess_data: the sentinel scrubbed in all required metrics
preprocess_data_ScrubRequired(table) ==
    IF table = <<>> THEN <<>> ELSE handle_special_values(table, REQUIRED_METRICS)

\* DataProcessor.preprocess_data: the returned table
preprocess_data(table) ==
    IF table = <<>> THEN <<>> ELSE handle_special_values(table, DOCKING_METRICS)

\* data.groupby('protein_name'): the index labels of one protein's rows
Group(table, protein) == {i \in 1..Len(table) : table[i].protein_name = protein}

\* group[metric]
GroupColumn(table, protein, metric) ==
    [i \in Group(table, protein) |-> table[i].vals[metric]]

\* metrics_to_normalize, for metric in ...: if metric in data.columns
\* the normalized_<metric> columns of the result: the first assignment to a
\* missing column creates it (NaN in every row), and a metric is assigned to
\* once some protein group has a value of it that is not NaN
NormalizedColumns(table) ==
    {metric \in Range(REQUIRED_METRICS \o OPTIONAL_METRICS) \cap Columns(table) :
        \E i \in 1..Len(table) : ~IsNaN(table[i].vals[metric])}

\* for protein, group in data.groupby('protein_name'):
\*     if group[metric].notna().any():
\*         normalized_data.loc[group.index, normalized_column] = normalized_values
\* the cell of row i after the loops: every (metric, group) pair is assigned at
\* most once and the groups are disjoint; the cells of a skipped group stay NaN
NormalizedCell(table, i, metric, m) ==
    LET group == GroupColumn(table, table[i].protein_name, metric)
    IN  IF NotNa(group) # {} THEN normalize_metric(group, m)[i] ELSE NaN

\* DataProcessor.normalize_data: the returned table
normalize_data(table, m) ==
    IF table = <<>> THEN <<>>
    ELSE [i \in 1..Len(table) |->
            [table[i] EXCEPT !.norm =
                [metric \in NormalizedColumns(table) |-> NormalizedCell(table, i, metric, m)]]]

-----------------------------------------------------------------------------
(* Scorer and Ranker (src/src/core/scorer.py, src/src/core/ranker.py)      *)

\* config.get("scoring", key) or default: a configured 0 is falsy
OrDefault(v, default) == IF v = Zero THEN default ELSE v

\* the call of calculate_composite_score in score_data and in
\* score_conformation_protein_pairs, with the configured category weights
ScoreRow(row, selected_metrics, weights, cfg) ==
    calculate_composite_score(row.norm, selected_metrics, weights,
        OrDefault(cfg.docking_weight, Frac(2, 5)),
        OrDefault(cfg.energy_weight, Frac(2, 5)),
        OrDefault(cfg.optional_weight, Frac(1, 5)))

\* Scorer.score_conformation_protein_pairs, rows i..Len(table): the dict
\* {conf_id: {protein: scores}} as insertion-ordered sequences
RECURSIVE ScorePairs(_, _, _, _, _, _)
ScorePairs(table, i, selected_metrics, weights, cfg, conformations) ==
    IF i > Len(table) THEN conformations
    ELSE LET row == table[i]
             conf_id == <<row.title, row.lignum>>
             protein == row.protein_name
             j == DictIndex(conformations, conf_id)
             proteins == IF j = 0 THEN <<>> ELSE conformations[j].v
             sc == ScoreRow(row, selected_metrics, weights, cfg)
             entry == [total_score |-> sc.total_score,
                       docking_score |-> sc.docking_score,
                       energy_score |-> sc.energy_score,
                       raw_data |-> i]
         IN  ScorePairs(table, i + 1, selected_metrics, weights, cfg,
                        DictPut(conformations, conf_id, DictPut(proteins, protein, entry)))

score_conformation_protein_pairs(table, selected_metrics, weights, cfg) ==
    IF table = <<>> THEN <<>>
    ELSE ScorePairs(table, 1, selected_metrics, weights, cfg, <<>>)

\* x[1] for x in proteins.items(), each with its sort key total_score
RECURSIVE ByTotalScore(_)
ByTotalScore(items) ==
    IF items = <<>> THEN <<>>
    ELSE <<[key |-> <<Head(items).v.total_score>>, item |-> Head(items)]>>
             \o ByTotalScore(Tail(items))

\* the entry of one conformation: its best (lowest total_score) protein
BestEntry(conf) ==
    LET items == ByTotalScore(conf.v)
        best_protein == PyMin(items, 2, items[1]).item
    IN  [conf_id |-> conf.k, title |-> conf.k[1], lignum |-> conf.k[2],
         total_score |-> best_protein.v.total_score,
         docking_score |-> best_protein.v.docking_score,
         energy_score |-> best_protein.v.energy_score,
         best_protein |-> best_protein.k,
         raw_data |-> best_protein.v.raw_data]

\* result.append({...}) for every conformation, each with its sort key
RECURSIVE BestEntries(_)
BestEntries(conformations) ==
    IF conformations = <<>> THEN <<>>
    ELSE LET e == BestEntry(Head(conformations))
         IN  <<[key |-> <<e.total_score>>, item |-> e]>> \o BestEntries(Tail(conformations))

\* [x.item for x in keyed]
RECURSIVE Items(_)
Items(keyed) == IF keyed = <<>> THEN <<>> ELSE <<Head(keyed).item>> \o Items(Tail(keyed))

\* Ranker.rank_conformations: the returned list
rank_conformations(table, selected_metrics, weights, cfg) ==
    Items(PySort(BestEntries(
        score_conformation_protein_pairs(table, selected_metrics, weights, cfg))))

\* np.mean of a list of scores
RECURSIVE SeqSum(_)
SeqSum(xs) == IF xs = <<>> THEN Zero ELSE FAdd(Head(xs), SeqSum(Tail(xs)))

\* mutation of NpMean: the sum, not divided by the number of values
NpMean_Sum(xs) == SeqSum(xs)

NpMean(xs) == FDiv(SeqSum(xs), Num(Len(xs)))

\* the protein_stats dict built from conformation_ranking[i..]
RECURSIVE ProteinStats(_, _, _)
ProteinStats(ranking, i, protein_stats) ==
    IF i > Len(ranking) THEN protein_stats
    ELSE LET conf == ranking[i]
             j == DictIndex(protein_stats, conf.best_protein)
             stats == IF j = 0
                      THEN [best_count |-> 0, total_scores |-> <<>>,
                            docking_scores |-> <<>>, energy_scores |-> <<>>]
                      ELSE protein_stats[j].v
             upd == [best_count |-> stats.best_count + 1,
                     total_scores |-> Append(stats.total_scores, conf.total_score),
                     docking_scores |-> Append(stats.docking_scores, conf.docking_score),
                     energy_scores |-> Append(stats.energy_scores, conf.energy_score)]
         IN  ProteinStats(ranking, i + 1, DictPut(protein_stats, conf.best_protein, upd))

\* result.append({...}) for every protein of protein_stats, each with its sort
\* key (-best_count, avg_total_score)
RECURSIVE ProteinEntries(_)
ProteinEntries(protein_stats) ==
    IF protein_stats = <<>> THEN <<>>
    ELSE LET stats == Head(protein_stats).v
             e == [protein_name |-> Head(protein_stats).k,
                   best_count |-> stats.best_count,
                   avg_total_score |-> NpMean(stats.total_scores),
                   avg_docking_score |-> NpMean(stats.docking_scores),
                   avg_energy_score |-> NpMean(stats.energy_scores)]
         IN  <<[key |-> <<Num(-e.best_count), e.avg_total_score>>, item |-> e]>>
                 \o ProteinEntries(Tail(protein_stats))

\* mutation of rank_proteins: the counting loop skips the first ranking entry
rank_proteins_SkipFirst(ranking) ==
    IF ranking = <<>> THEN <<>>
    ELSE Items(PySort(ProteinEntries(ProteinStats(ranking, 2, <<>>))))

\* mutation of rank_proteins: the entries are sorted from the reversed list, so
\* entries with equal keys come out in reverse order
rank_proteins_ReversedTies(ranking) ==
    IF ranking = <<>> THEN <<>>
    ELSE Items(PySort(Reverse(ProteinEntries(ProteinStats(ranking, 1, <<>>)))))

\* Ranker.rank_proteins: the returned list, from self.conformation_ranking
rank_proteins(ranking) ==
    IF ranking = <<>> THEN <<>>
    ELSE Items(PySort(ProteinEntries(ProteinStats(ranking, 1, <<>>))))

-----------------------------------------------------------------------------
(* Inputs                                                                  *)

MaxRows == 3        \* rows of the input table
MaxLen == 3         \* length of a column handed to normalize_metric
MaxVal == 2         \* finite raw values of such a column are -MaxVal..MaxVal
MaxWeightNum == 3   \* category weights are k/5, k in 0..MaxWeightNum

hbond == "r_i_glide_hbond"

\* the metric columns of the input table: the required ones and one optional
Vals(d, g, em, en, hb) ==
    [m \in Range(REQUIRED_METRICS) \cup {hbond} |->
        IF m = "r_i_docking_score" THEN d
        ELSE IF m = "r_i_glide_gscore" THEN g
        ELSE IF m = "r_i_glide_emodel" THEN em
        ELSE IF m = "r_i_glide_energy" THEN en
        ELSE hb]

\* the cell values a row may carry: a good pose, a worse pose with gaps and a
\* failed pose (sentinel 10000 in both docking metrics, no energies)
RowProfiles ==
    { Vals(Num(1), Num(1), Num(1), Num(1), Num(1)),
      Vals(Num(2), NaN, Num(2), Num(1), NaN),
      Vals(Num(special_value), Num(special_value), NaN, NaN, Num(special_value)) }

ConfIds == {<<1, 1>>, <<1, 2>>}

Proteins == {"A", "B"}

\* the rows of the input table; the two proteins are interchangeable, and the
\* failed pose is given to protein B only
RowSet ==
    {r \in {[title |-> id[1], lignum |-> id[2], protein_name |-> p, vals |-> v,
             norm |-> <<>>] : id \in ConfIds, p \in Proteins, v \in RowProfiles} :
        r.vals["r_i_docking_score"] = Num(special_value) => r.protein_name = "B"}

\* DataReader.read_directory concatenates one block of rows per protein file
\* (src/src/data/reader.py lines 98-113): the rows of a protein are contiguous
OneBlockPerProtein(t) ==
    \A i, k \in 1..Len(t) :
        (i < k /\ t[i].protein_name = t[k].protein_name)
            => \A j \in i..k : t[j].protein_name = t[i].protein_name

Tables == {t \in UNION {[1..n -> RowSet] : n \in 0..MaxRows} : OneBlockPerProtein(t)}

\* DEFAULT_CONFIG["scoring"]
DefaultScoring ==
    [docking_weight |-> Frac(2, 5), energy_weight |-> Frac(2, 5),
     optional_weight |-> Frac(1, 5), normalization_method |-> "min-max"]

\* values of config scoring.normalization_method
ConfigMethods == {"min-max", "z-score"}

\* config.get_metrics_weights() of DEFAULT_CONFIG
DefaultWeights ==
    [m \in Range(REQUIRED_METRICS) \cup Range(OPTIONAL_METRICS) |->
        IF m \in Range(REQUIRED_METRICS) THEN One
        ELSE IF m = hbond THEN Frac(7, 10)
        ELSE IF m \in {"r_i_glide_metal", "r_i_glide_erotb", "r_i_glide_einternal"}
             THEN Frac(3, 10)
        ELSE Frac(1, 2)]

SelectedChoices == {REQUIRED_METRICS, REQUIRED_METRICS \o <<hbond>>}

ColValues == {NaN, PosInf, NegInf} \cup {Num(k) : k \in (-MaxVal)..MaxVal}

Columns1 == UNION {[1..n -> ColValues] : n \in 0..MaxLen}

Methods == {"min-max", "z-score", "robust"}

NormCells == {Zero, Frac(1, 2), One, NaN}

ScoreMetrics == {"r_i_docking_score", "r_i_glide_gscore", "r_i_glide_emodel", hbond}

\* the cells a normalized column may hold in a row handed to the scorer
CellsOf(m) ==
    IF m = "r_i_glide_gscore" THEN {One}
    ELSE IF m = "r_i_glide_emodel" THEN {Zero, One, NaN}
    ELSE IF m = hbond THEN {Frac(1, 2), NaN}
    ELSE NormCells

\* rows of a normalized table, seen through their normalized columns
ScoreRows ==
    UNION {{f \in [D -> NormCells] : \A m \in D : f[m] \in CellsOf(m)} :
              D \in SUBSET ScoreMetrics}

WeightMaps ==
    { DefaultWeights,
      [m \in {"r_i_docking_score", "r_i_glide_gscore", hbond} |-> Zero],
      [m \in {"r_i_docking_score"} |-> Num(3)] }

CatWeights == {Frac(k, 5) : k \in 0..MaxWeightNum}

-----------------------------------------------------------------------------
(* The pipeline run (src/src/ui/cli.py run_cli, lines 127-145)             *)

NoCall == [stage |-> "none", arg |-> "none", result |-> <<>>]

\* no window: the program was not started as a GUI
NoWindow == [started |-> FALSE]

NoGui == window = NoWindow /\ threads = <<>> /\ events = <<>>

NoCol == [values |-> <<>>, method |-> "min-max", done |-> FALSE, out |-> <<>>]

NoScore ==
    [row |-> <<>>, selected_metrics |-> <<>>, weights |-> <<>>,
     docking_weight |-> Zero, energy_weight |-> Zero, optional_weight |-> Zero,
     done |-> FALSE, st |-> "none", total_score |-> NaN, docking_score |-> NaN,
     energy_score |-> NaN]

NoPipe ==
    /\ pc = "idle"
    /\ raw = <<>>
    /\ config = DefaultScoring
    /\ method = "min-max"
    /\ selected = REQUIRED_METRICS
    /\ processor = [data |-> <<>>, normalized_data |-> <<>>]
    /\ ranker = [conformation_ranking |-> <<>>, protein_ranking |-> <<>>]
    /\ processed_data = <<>>
    /\ normalized_data = <<>>
    /\ conformation_ranking = <<>>
    /\ protein_ranking = <<>>

Init ==
    /\ pc = "read"
    /\ raw \in Tables
    /\ config = DefaultScoring
    /\ method = "min-max"
    /\ selected = REQUIRED_METRICS
    /\ processor = [data |-> <<>>, normalized_data |-> <<>>]
    /\ ranker = [conformation_ranking |-> <<>>, protein_ranking |-> <<>>]
    /\ processed_data = <<>>
    /\ normalized_data = <<>>
    /\ conformation_ranking = <<>>
    /\ protein_ranking = <<>>
    /\ col = NoCol
    /\ score = NoScore
    /\ call = NoCall
    /\ heap = <<>>
    /\ NoGui

\* processed_data = processor.preprocess_data(data)
Preprocess ==
    /\ pc = "read"
    /\ processed_data' = preprocess_data(raw)
    /\ processor' = IF raw = <<>> THEN processor
                    ELSE [processor EXCEPT !.data = processed_data']
    /\ pc' = "preprocessed"
    /\ UNCHANGED <<raw, config, method, selected, ranker, normalized_data,
                   conformation_ranking, protein_ranking, col, score, call, heap, guiVars>>

\* mutation of Normalize: the table read is normalized, not the preprocessed one
Normalize_OnRaw ==
    /\ pc = "preprocessed"
    /\ \E m \in ConfigMethods : method' = m
    /\ normalized_data' = normalize_data(raw, method')
    /\ processor' = IF processed_data = <<>> THEN processor
                    ELSE [processor EXCEPT !.normalized_data = normalized_data']
    /\ pc' = "normalized"
    /\ UNCHANGED <<raw, config, selected, ranker, processed_data,
                   conformation_ranking, protein_ranking, col, score, call, heap, guiVars>>

\* normalized_data = processor.normalize_data(processed_data, normalization_method)
Normalize ==
    /\ pc = "preprocessed"
    /\ \E m \in ConfigMethods : method' = m
    /\ normalized_data' = normalize_data(processed_data, method')
    /\ processor' = IF processed_data = <<>> THEN processor
                    ELSE [processor EXCEPT !.normalized_data = normalized_data']
    /\ pc' = "normalized"
    /\ UNCHANGED <<raw, config, selected, ranker, processed_data,
                   conformation_ranking, protein_ranking, col, score, call, heap, guiVars>>

\* conformation_ranking = ranker.rank_conformations(normalized_data, selected_metrics, weights)
RankConformations ==
    /\ pc = "normalized"
    /\ \E sel \in SelectedChoices : selected' = sel
    /\ conformation_ranking' = rank_conformations(normalized_data, selected',
                                                  DefaultWeights, config)
    /\ ranker' = IF normalized_data = <<>> THEN ranker
                 ELSE [ranker EXCEPT !.conformation_ranking = conformation_ranking']
    /\ pc' = "ranked"
    /\ UNCHANGED <<raw, config, method, processor, processed_data,
                   normalized_data, protein_ranking, col, score, call, heap, guiVars>>

\* protein_ranking = ranker.rank_proteins()
RankProteins ==
    /\ pc = "ranked"
    /\ protein_ranking' = rank_proteins(ranker.conformation_ranking)
    /\ ranker' = IF ranker.conformation_ranking = <<>> THEN ranker
                 ELSE [ranker EXCEPT !.protein_ranking = protein_ranking']
    /\ pc' = "done"
    /\ UNCHANGED <<raw, config, method, selected, processor, processed_data,
                   normalized_data, conformation_ranking, col, score, call, heap, guiVars>>

Next == Preprocess \/ Normalize \/ RankConformations \/ RankProteins

Spec == Init /\ [][Next]_vars

-----------------------------------------------------------------------------
(* One call of normalize_metric on an arbitrary column                     *)

InitNorm ==
    /\ NoPipe
    /\ score = NoScore
    /\ call = NoCall
    /\ heap = <<>>
    /\ NoGui
    /\ \E values \in Columns1, m \in Methods :
          col = [values |-> values, method |-> m, done |-> FALSE, out |-> <<>>]

NormalizeMetric ==
    /\ ~col.done
    /\ col' = [col EXCEPT !.done = TRUE, !.out = normalize_metric(col.values, col.method)]
    /\ UNCHANGED <<pipeVars, score, call, heap, guiVars>>

NextNorm == NormalizeMetric

SpecNorm == InitNorm /\ [][NextNorm]_vars

-----------------------------------------------------------------------------
(* One call of calculate_composite_score on an arbitrary normalized row    *)

InitScore ==
    /\ NoPipe
    /\ col = NoCol
    /\ call = NoCall
    /\ heap = <<>>
    /\ NoGui
    /\ \E row \in ScoreRows, sel \in SelectedChoices, w \in WeightMaps,
          dw \in CatWeights, ew \in CatWeights, ow \in CatWeights :
          score = [NoScore EXCEPT !.row = row, !.selected_metrics = sel, !.weights = w,
                                  !.docking_weight = dw, !.energy_weight = ew,
                                  !.optional_weight = ow]

CompositeScore ==
    /\ ~score.done
    /\ LET r == calculate_composite_score(score.row, score.selected_metrics,
                    score.weights, score.docking_weight, score.energy_weight,
                    score.optional_weight)
       IN  score' = [score EXCEPT !.done = TRUE, !.st = r.st,
                                  !.total_score = r.total_score,
                                  !.docking_score = r.docking_score,
                                  !.energy_score = r.energy_score]
    /\ UNCHANGED <<pipeVars, col, call, heap, guiVars>>

NextScore == CompositeScore

SpecScore == InitScore /\ [][NextScore]_vars

-----------------------------------------------------------------------------
(* Properties of calculate_composite_score (SpecScore)                     *)

CellsInUnit == \A m \in DOMAIN score.row : InUnit(score.row[m])

NoOptionalSelected ==
    \A k \in DOMAIN score.selected_metrics :
        score.selected_metrics[k] \notin Range(OPTIONAL_METRICS)

\* C1: for every row, every non-negative choice of the three category weights
\* and all normalized inputs in [0,1], the total score that
\* calculate_composite_score returns satisfies 0 <= total_score <= 1, with and
\* without the optional category.
C1_TotalInUnit ==
    (score.done /\ score.st = "ok" /\ CellsInUnit) => InUnit(score.total_score)

\* C2: when no selected metric belongs to the optional catalog list, the total
\* score returned is (docking_weight*docking + energy_weight*energy) /
\* (docking_weight + energy_weight), a value in which optional_weight does not
\* occur; with docking_weight = energy_weight = 0.4 it is 0.5*docking +
\* 0.5*energy.  (The call returns only when docking_weight + energy_weight is
\* not zero.)
C2_Reweighting ==
    (score.done /\ score.st = "ok" /\ NoOptionalSelected) =>
        /\ score.total_score =
              FDiv(FAdd(FMul(score.docking_weight, score.docking_score),
                        FMul(score.energy_weight, score.energy_score)),
                   FAdd(score.docking_weight, score.energy_weight))
        /\ (score.docking_weight = Frac(2, 5) /\ score.energy_weight = Frac(2, 5)) =>
              score.total_score = FAdd(FMul(Frac(1, 2), score.docking_score),
                                       FMul(Frac(1, 2), score.energy_score))

C2_Witness ==
    /\ score.done /\ score.st = "ok" /\ NoOptionalSelected
    /\ score.docking_weight = Frac(2, 5) /\ score.energy_weight = Frac(2, 5)
    /\ score.optional_weight = Frac(1, 5)
    /\ IsFinite(score.docking_score) /\ IsFinite(score.energy_score)
    /\ score.docking_score # score.energy_score
    /\ score.total_score = FDiv(FAdd(score.docking_score, score.energy_score), Num(2))

-----------------------------------------------------------------------------
(* Properties of normalize_metric (SpecNorm)                               *)

\* C9: normalize_metric, for any input column (any mix of present and absent
\* values) and any method, returns a column of the same length and the same
\* positional index whose every entry is in [0,1] and none is absent.
C9_OutputInUnit ==
    col.done =>
        /\ DOMAIN col.out = DOMAIN col.values
        /\ \A i \in DOMAIN col.out : ~IsNaN(col.out[i]) /\ InUnit(col.out[i])

C9_Witness ==
    /\ col.done /\ col.method = "z-score"
    /\ Len(col.values) = 3 /\ Len(col.out) = 3
    /\ \E i, j, k \in DOMAIN col.values :
          /\ IsNaN(col.values[i])
          /\ IsFinite(col.values[j]) /\ IsFinite(col.values[k])
          /\ col.values[j] # col.values[k]
          /\ col.out[j] # col.out[k]

MinMaxCall == col.done /\ col.method # "z-score"

ColMin == FMin({col.values[i] : i \in NotNa(col.values)})

ColMax == FMax({col.values[i] : i \in NotNa(col.values)})

MapsEndpoints ==
    \A i \in NotNa(col.values) :
        /\ FEq(col.values[i], ColMin) => col.out[i] = Zero
        /\ FEq(col.values[i], ColMax) => col.out[i] = One

\* C10 as stated: min-max normalization of a group with at least one
\* non-absent value maps the minimum non-absent input to 0.0 and the maximum
\* non-absent input to 1.0.
C10_Original ==
    (MinMaxCall /\ NotNa(col.values) # {}) => MapsEndpoints

\* C10 amended: min-max normalization of a group whose non-absent values are
\* not all equal and whose minimum is finite maps the minimum non-absent input
\* to 0.0 and the maximum non-absent input to 1.0.
C10_Amended ==
    (MinMaxCall /\ NotNa(col.values) # {} /\ ~FEq(ColMin, ColMax) /\ IsFinite(ColMin))
        => MapsEndpoints

C10_Witness ==
    /\ MinMaxCall /\ col.method = "min-max" /\ NotNa(col.values) # {}
    /\ IsFinite(ColMin) /\ IsFinite(ColMax) /\ FLt(ColMin, ColMax)
    /\ \E i, j, k \in DOMAIN col.values :
          /\ IsNaN(col.values[i])
          /\ col.values[j] = ColMin /\ col.out[j] = Zero
          /\ col.values[k] = ColMax /\ col.out[k] = One

-----------------------------------------------------------------------------
(* Properties of the pipeline run (Spec)                                   *)

Normalized == pc \in {"normalized", "ranked", "done"}

Ranked == pc \in {"ranked", "done"}

ConfIdOf(row) == <<row.title, row.lignum>>

\* the composite score of row i of the normalized table under the run's settings
RowScore(i) == ScoreRow(normalized_data[i], selected, DefaultWeights, config)

AllTotalsDefined ==
    \A i \in DOMAIN normalized_data : ~IsNaN(RowScore(i).total_score)

\* C3: for every conformation identity (title, lignum), the entry emitted by
\* rank_conformations carries the minimum total score over all input rows of
\* that identity, rows repeating one protein for an identity included.  Stated
\* for the runs in which every row's total score is a defined number.
C3_MinimumOverAllRows ==
    (Ranked /\ AllTotalsDefined) =>
        \A k \in DOMAIN conformation_ranking :
            \A i \in DOMAIN normalized_data :
                ConfIdOf(normalized_data[i]) = conformation_ranking[k].conf_id
                    => FLe(conformation_ranking[k].total_score, RowScore(i).total_score)

\* C4: the list returned by rank_conformations is sorted ascending by
\* total_score (each entry's total_score <= the next entry's) and contains
\* exactly one entry per distinct (title, lignum) identity of the input table.
C4_SortedOnePerIdentity ==
    Ranked =>
        /\ \A k \in 1..(Len(conformation_ranking) - 1) :
              FLe(conformation_ranking[k].total_score,
                  conformation_ranking[k + 1].total_score)
        /\ {conformation_ranking[k].conf_id : k \in DOMAIN conformation_ranking}
              = {ConfIdOf(normalized_data[i]) : i \in DOMAIN normalized_data}
        /\ \A j, k \in DOMAIN conformation_ranking :
              conformation_ranking[j].conf_id = conformation_ranking[k].conf_id => j = k

\* C5: in the list returned by rank_proteins, each entry has a win count >=
\* the next entry's, and when the win counts are equal its avg_total_score is
\* <= the next entry's.
C5_ProteinOrder ==
    pc = "done" =>
        \A k \in 1..(Len(protein_ranking) - 1) :
            /\ protein_ranking[k].best_count >= protein_ranking[k + 1].best_count
            /\ protein_ranking[k].best_count = protein_ranking[k + 1].best_count
                  => FLe(protein_ranking[k].avg_total_score,
                         protein_ranking[k + 1].avg_total_score)

Winners == {conformation_ranking[k].best_protein : k \in DOMAIN conformation_ranking}

RECURSIVE SumBestCount(_)
SumBestCount(entries) ==
    IF entries = <<>> THEN 0 ELSE Head(entries).best_count + SumBestCount(Tail(entries))

\* C6: the protein ranking has exactly one entry per protein that is
\* best_protein of at least one conformation entry (a protein that never wins
\* does not appear, every best_count >= 1), and the sum of best_count over
\* all protein entries equals the number of conformation ranking entries.
C6_WinCounts ==
    pc = "done" =>
        /\ {protein_ranking[k].protein_name : k \in DOMAIN protein_ranking} = Winners
        /\ Len(protein_ranking) = Cardinality(Winners)
        /\ \A k \in DOMAIN protein_ranking :
              /\ protein_ranking[k].best_count >= 1
              /\ protein_ranking[k].best_count =
                    Cardinality({j \in DOMAIN conformation_ranking :
                        conformation_ranking[j].best_protein
                            = protein_ranking[k].protein_name})
        /\ SumBestCount(protein_ranking) = Len(conformation_ranking)

C6_Witness ==
    /\ pc = "done"
    /\ Len(conformation_ranking) = 2
    /\ Len(protein_ranking) = 1
    /\ protein_ranking[1].best_count = 2
    /\ Cardinality({raw[i].protein_name : i \in DOMAIN raw}) = 2

AllAbsent(row, metrics) == \A m \in Range(metrics) : IsNaN(row.vals[m])

\* C7: missing data never yields an undefined score: after preprocess_data,
\* normalize_data and scoring, a row whose metrics of a category (docking or
\* energy) are all absent gets that category score equal to 1.0, also when
\* every value of those metrics is absent in the row's whole protein group
\* while other groups have values, and every total score is a defined number.
\* Stated for the default min-max method.
C7_MissingDataScoresWorst ==
    (Normalized /\ method = "min-max") =>
        \A i \in DOMAIN normalized_data :
            /\ AllAbsent(normalized_data[i], DOCKING_METRICS)
                  => RowScore(i).docking_score = One
            /\ AllAbsent(normalized_data[i], ENERGY_METRICS)
                  => RowScore(i).energy_score = One
            /\ ~IsNaN(RowScore(i).total_score)

\* C8: after normalize_data, every row of every protein group holds a value in
\* [0,1] in each companion normalized column; no normalized cell is left
\* absent.  Stated for the normalized columns normalize_data has created.
C8_NormalizedCellsInUnit ==
    Normalized =>
        \A i \in DOMAIN normalized_data :
            \A m \in DOMAIN normalized_data[i].norm :
                InUnit(normalized_data[i].norm[m])

-----------------------------------------------------------------------------
(* Further properties of normalize_metric (SpecNorm)                       *)

DegenerateGroup ==
    /\ NotNa(col.values) # {}
    /\ \A i \in NotNa(col.values) : IsFinite(col.values[i])
    /\ \A i, j \in NotNa(col.values) : FEq(col.values[i], col.values[j])

\* C11: for a degenerate group, where all non-absent values are equal (a
\* group with a single non-absent value included), normalize_metric maps
\* every non-absent value to 0.0 and every absent value to 1.0, under the
\* min-max method and under the z-score method alike.  Stated for groups of
\* finite values.
C11_DegenerateGroup ==
    (col.done /\ col.method \in {"min-max", "z-score"} /\ DegenerateGroup) =>
        \A i \in DOMAIN col.values :
            col.out[i] = IF IsNaN(col.values[i]) THEN One ELSE Zero

-----------------------------------------------------------------------------
(* One call of preprocess_data on a table with sentinel cells              *)

MaxPreRows == 2     \* rows of the table handed to preprocess_data alone

\* rows whose cells are plain numbers, the sentinel, a near-sentinel or absent
PreRows ==
    {[title |-> 1, lignum |-> 1, protein_name |-> "A", vals |-> v, norm |-> <<>>] :
        v \in {Vals(d, g, em, Num(1), hb) :
                  d \in {Num(1), Num(special_value - 1), Num(special_value), NaN},
                  g \in {Num(1), Num(special_value)},
                  em \in {Num(1), Num(special_value)},
                  hb \in {Num(special_value), NaN}}}

PreTables == UNION {[1..n -> PreRows] : n \in 0..MaxPreRows}

InitPre ==
    /\ pc = "read"
    /\ raw \in PreTables
    /\ config = DefaultScoring
    /\ method = "min-max"
    /\ selected = REQUIRED_METRICS
    /\ processor = [data |-> <<>>, normalized_data |-> <<>>]
    /\ ranker = [conformation_ranking |-> <<>>, protein_ranking |-> <<>>]
    /\ processed_data = <<>>
    /\ normalized_data = <<>>
    /\ conformation_ranking = <<>>
    /\ protein_ranking = <<>>
    /\ col = NoCol
    /\ score = NoScore
    /\ call = NoCall
    /\ heap = <<>>
    /\ NoGui

NextPre == Preprocess

SpecPre == InitPre /\ [][NextPre]_vars

Scrubbed(m, x) ==
    IF m \in {"r_i_docking_score", "r_i_glide_gscore"} /\ x = Num(10000) THEN NaN ELSE x

-----------------------------------------------------------------------------
(* Further properties of the pipeline run (Spec)                           *)

\* the rows of one protein group, in table order
RowsOf(table, protein) == SelectSeq(table, LAMBDA r : r.protein_name = protein)

\* C13: normalization is independent per protein group: for two input tables
\* that agree on all rows of a protein group and differ only in rows of other
\* groups, normalize_data gives the rows of the group the same normalized
\* columns and the same normalized values, so their scores are the same.
\* Stated for the run's table and the table holding the rows of the group
\* alone.
C13_GroupIndependence ==
    Normalized =>
        \A p \in Proteins :
            LET together == RowsOf(normalized_data, p)
                alone == normalize_data(RowsOf(processed_data, p), method)
            IN  /\ Len(together) = Len(alone)
                /\ \A k \in DOMAIN together :
                      /\ together[k].norm = alone[k].norm
                      /\ ScoreRow(together[k], selected, DefaultWeights, config)
                            = ScoreRow(alone[k], selected, DefaultWeights, config)

-----------------------------------------------------------------------------
(* Several ranking passes on one Ranker                                    *)

MaxRankRows == 1    \* rows of a table handed to a ranking pass

\* normalized tables handed to rank_conformations, the empty table included
RankTables ==
    {normalize_data(preprocess_data(t), "min-max") :
        t \in {u \in Tables : /\ Len(u) <= MaxRankRows
                              /\ \A i \in DOMAIN u : u[i].vals = Vals(Num(1), Num(1), Num(1), Num(1), Num(1))}}

InitRank ==
    /\ pc = "normalized"
    /\ normalized_data \in RankTables
    /\ raw = <<>>
    /\ config = DefaultScoring
    /\ method = "min-max"
    /\ selected = REQUIRED_METRICS
    /\ processor = [data |-> <<>>, normalized_data |-> <<>>]
    /\ ranker = [conformation_ranking |-> <<>>, protein_ranking |-> <<>>]
    /\ processed_data = <<>>
    /\ conformation_ranking = <<>>
    /\ protein_ranking = <<>>
    /\ col = NoCol
    /\ score = NoScore
    /\ call = NoCall
    /\ heap = <<>>
    /\ NoGui

\* the caller starts a further pass on the same Ranker with another table
Reload ==
    /\ pc \in {"ranked", "done"}
    /\ \E t \in RankTables : normalized_data' = t
    /\ conformation_ranking' = <<>>
    /\ protein_ranking' = <<>>
    /\ pc' = "normalized"
    /\ UNCHANGED <<raw, config, method, selected, processor, ranker, processed_data,
                   col, score, call, heap, guiVars>>

NextRank == RankConformations \/ RankProteins \/ Reload

SpecRank == InitRank /\ [][NextRank]_vars

\* C14: after any sequence of rank_conformations calls on one Ranker,
\* get_conformation_ranking and rank_proteins reflect exactly the entries
\* returned by the most recent rank_conformations call; when that call
\* returned an empty list, rank_proteins returns an empty list and no result
\* of an earlier pass is used.
C14_LatestRankingOnly ==
    /\ pc \in {"ranked", "done"} => ranker.conformation_ranking = conformation_ranking
    /\ pc = "done" => protein_ranking = rank_proteins(conformation_ranking)
    /\ (pc = "done" /\ conformation_ranking = <<>>) => protein_ranking = <<>>

-----------------------------------------------------------------------------
(* The stages called on their own with empty input                         *)

\* Scorer.score_data: the returned table, each row with its three scores
score_data(table, selected_metrics, weights, cfg) ==
    IF table = <<>> THEN <<>>
    ELSE [i \in 1..Len(table) |->
            LET sc == ScoreRow(table[i], selected_metrics, weights, cfg)
            IN  [row |-> table[i], total_score |-> sc.total_score,
                 docking_score |-> sc.docking_score, energy_score |-> sc.energy_score]]

\* an empty argument of a stage: None or a DataFrame without rows
EmptyArgs == {"None", "empty"}

\* mutation of DataOrSelf: the stored table used whatever the argument is
DataOrSelf_AlwaysSelf(self_data, arg) == self_data

\* DataProcessor.normalize_data: if data is None: data = self.data
DataOrSelf(self_data, arg) == IF arg = "None" THEN self_data ELSE <<>>

\* the tables a DataProcessor may hold from an earlier preprocess_data call
HeldTables == {preprocess_data(t) : t \in {u \in Tables : Len(u) <= MaxRankRows}}

\* the lists a Ranker may hold from an earlier rank_conformations call
HeldRankings ==
    {rank_conformations(t, REQUIRED_METRICS, DefaultWeights, DefaultScoring) : t \in RankTables}

InitEmpty ==
    /\ pc = "call"
    /\ raw = <<>>
    /\ config = DefaultScoring
    /\ method = "min-max"
    /\ selected = REQUIRED_METRICS
    /\ \E t \in HeldTables : processor = [data |-> t, normalized_data |-> <<>>]
    /\ \E r \in HeldRankings : ranker = [conformation_ranking |-> r, protein_ranking |-> <<>>]
    /\ processed_data = <<>>
    /\ normalized_data = <<>>
    /\ conformation_ranking = <<>>
    /\ protein_ranking = <<>>
    /\ col = NoCol
    /\ score = NoScore
    /\ call = NoCall
    /\ heap = <<>>
    /\ NoGui

\* processor.preprocess_data(None) or processor.preprocess_data(pd.DataFrame())
CallPreprocess ==
    /\ pc = "call"
    /\ \E a \in EmptyArgs :
          call' = [stage |-> "preprocess_data", arg |-> a, result |-> preprocess_data(<<>>)]
    /\ pc' = "returned"
    /\ UNCHANGED <<raw, config, method, selected, processor, ranker, processed_data,
                   normalized_data, conformation_ranking, protein_ranking, col, score, heap, guiVars>>

\* processor.normalize_data(None, method) or processor.normalize_data(pd.DataFrame(), method)
CallNormalize ==
    /\ pc = "call"
    /\ \E a \in EmptyArgs, m \in ConfigMethods :
          /\ call' = [stage |-> "normalize_data", arg |-> a,
                      result |-> normalize_data(DataOrSelf(processor.data, a), m)]
          /\ method' = m
          /\ processor' = IF DataOrSelf(processor.data, a) = <<>> THEN processor
                          ELSE [processor EXCEPT !.normalized_data = call'.result]
    /\ pc' = "returned"
    /\ UNCHANGED <<raw, config, selected, ranker, processed_data, normalized_data,
                   conformation_ranking, protein_ranking, col, score, heap, guiVars>>

\* scorer.score_data(None, ...) or scorer.score_data(pd.DataFrame(), ...)
CallScoreData ==
    /\ pc = "call"
    /\ \E a \in EmptyArgs :
          call' = [stage |-> "score_data", arg |-> a,
                   result |-> score_data(<<>>, selected, DefaultWeights, config)]
    /\ pc' = "returned"
    /\ UNCHANGED <<raw, config, method, selected, processor, ranker, processed_data,
                   normalized_data, conformation_ranking, protein_ranking, col, score, heap, guiVars>>

\* scorer.score_conformation_protein_pairs on None or on pd.DataFrame()
CallScorePairs ==
    /\ pc = "call"
    /\ \E a \in EmptyArgs :
          call' = [stage |-> "score_conformation_protein_pairs", arg |-> a,
                   result |-> score_conformation_protein_pairs(<<>>, selected,
                                  DefaultWeights, config)]
    /\ pc' = "returned"
    /\ UNCHANGED <<raw, config, method, selected, processor, ranker, processed_data,
                   normalized_data, conformation_ranking, protein_ranking, col, score, heap, guiVars>>

\* ranker.rank_conformations on None or on pd.DataFrame()
CallRankConformations ==
    /\ pc = "call"
    /\ \E a \in EmptyArgs :
          call' = [stage |-> "rank_conformations", arg |-> a,
                   result |-> rank_conformations(<<>>, selected, DefaultWeights, config)]
    /\ pc' = "returned"
    /\ UNCHANGED <<raw, config, method, selected, processor, ranker, processed_data,
                   normalized_data, conformation_ranking, protein_ranking, col, score, heap, guiVars>>

\* ranker.rank_proteins()
CallRankProteins ==
    /\ pc = "call"
    /\ call' = [stage |-> "rank_proteins", arg |-> "none",
                result |-> rank_proteins(ranker.conformation_ranking)]
    /\ ranker' = IF ranker.conformation_ranking = <<>> THEN ranker
                 ELSE [ranker EXCEPT !.protein_ranking = call'.result]
    /\ pc' = "returned"
    /\ UNCHANGED <<raw, config, method, selected, processor, processed_data,
                   normalized_data, conformation_ranking, protein_ranking, col, score, heap, guiVars>>

NextEmpty ==
    \/ CallPreprocess \/ CallNormalize \/ CallScoreData
    \/ CallScorePairs \/ CallRankConformations \/ CallRankProteins

SpecEmpty == InitEmpty /\ [][NextEmpty]_vars

\* C15 as stated: on empty input (None or a table with no rows) each stage
\* returns an empty result: preprocess_data, normalize_data and score_data an
\* empty table, score_conformation_protein_pairs an empty mapping,
\* rank_conformations an empty list, and rank_proteins an empty list when
\* there is no conformation ranking.
C15_Original ==
    pc = "returned" =>
        /\ call.arg \in EmptyArgs => call.result = <<>>
        /\ (call.stage = "rank_proteins" /\ ranker.conformation_ranking = <<>>)
              => call.result = <<>>

\* C15 amended: as stated, except that normalize_data given None returns an
\* empty table only when the processor holds no preprocessed table.
C15_Amended ==
    pc = "returned" =>
        /\ (/\ call.arg \in EmptyArgs
            /\ ~(call.stage = "normalize_data" /\ call.arg = "None"
                    /\ processor.data # <<>>))
              => call.result = <<>>
        /\ (call.stage = "rank_proteins" /\ ranker.conformation_ranking = <<>>)
              => call.result = <<>>

C15_Witness ==
    /\ pc = "returned"
    /\ call.stage = "normalize_data" /\ call.arg = "empty"
    /\ processor.data # <<>>
    /\ call.result = <<>>
    /\ processor.normalized_data = <<>>

-----------------------------------------------------------------------------
(* Unknown normalization method (SpecNorm)                                 *)

\* C16: for any method name other than 'min-max' and 'z-score',
\* normalize_metric returns exactly the result of the min-max method on the
\* same column and raises no error.
C16_UnknownMethodIsMinMax ==
    (col.done /\ col.method \notin {"min-max", "z-score"}) =>
        col.out = normalize_metric(col.values, "min-max")

C16_Witness ==
    /\ col.done /\ col.method = "robust"
    /\ \E i, j, k \in DOMAIN col.values :
          /\ IsNaN(col.values[i]) /\ col.out[i] = One
          /\ IsFinite(col.values[j]) /\ col.out[j] = Zero
          /\ IsFinite(col.values[k]) /\ col.out[k] = One
          /\ FLt(col.values[j], col.values[k])

-----------------------------------------------------------------------------
(* Further properties of calculate_composite_score (SpecScore)             *)

SelectedOptional ==
    {score.selected_metrics[k] : k \in DOMAIN score.selected_metrics}
        \cap Range(OPTIONAL_METRICS)

\* the optional score of the call's row: 1.0 when no selected optional metric
\* has a normalized column
OptionalScore ==
    IF SelectedOptional \cap DOMAIN score.row = {} THEN One
    ELSE calculate_weighted_score(score.row,
             SelectWhere(score.selected_metrics, Range(OPTIONAL_METRICS)), score.weights)

\* C17: the optional category participates in the total score if and only if
\* at least one caller-selected metric is in the catalog's optional list; when
\* it participates but none of those metrics has a normalized column, the
\* optional score is 1.0 and is still weighted by optional_weight (no
\* redistribution).
C17_OptionalParticipation ==
    score.done =>
        /\ SelectedOptional # {} =>
              /\ score.st = "ok"
              /\ score.total_score =
                    FAdd(FAdd(FMul(score.docking_weight, score.docking_score),
                              FMul(score.energy_weight, score.energy_score)),
                         FMul(score.optional_weight, OptionalScore))
        /\ (SelectedOptional = {} /\ score.st = "ok") =>
              score.total_score =
                  FAdd(FMul(FDiv(score.docking_weight,
                                 FAdd(score.docking_weight, score.energy_weight)),
                            score.docking_score),
                       FMul(FDiv(score.energy_weight,
                                 FAdd(score.docking_weight, score.energy_weight)),
                            score.energy_score))

C17_Witness ==
    /\ score.done /\ score.st = "ok"
    /\ SelectedOptional = {hbond}
    /\ hbond \notin DOMAIN score.row
    /\ score.docking_weight = Frac(2, 5) /\ score.energy_weight = Frac(2, 5)
    /\ score.optional_weight = Frac(1, 5)
    /\ score.docking_score = Zero /\ score.energy_score = Zero
    /\ score.total_score = Frac(1, 5)

\* weight[m], 1.0 for a metric missing from the call's weight mapping
ClaimedWeight(m) == IF m \in DOMAIN score.weights THEN score.weights[m] ELSE One

\* the category score of the metric set S as the claim defines it
ClaimedCategoryScore(S) ==
    LET present == S \cap DOMAIN score.row
        wsum == FSum([m \in present |-> ClaimedWeight(m)], present)
    IN  IF present = {} THEN One
        ELSE IF wsum = Zero THEN One
        ELSE FDiv(FSum([m \in present |-> FMul(ClaimedWeight(m), score.row[m])], present),
                  wsum)

\* C18: the category score of a metric subset S is the sum of
\* weight[m]*normalized[m] divided by the sum of weight[m] over the metrics m
\* of S that have a normalized column, with weight 1.0 for every metric
\* missing from the weight mapping; it is 1.0 when no metric of S has a
\* normalized column and 1.0 when the weights sum to zero.
C18_CategoryScore ==
    score.done =>
        /\ score.docking_score
              = ClaimedCategoryScore({"r_i_docking_score", "r_i_glide_gscore"})
        /\ score.energy_score
              = ClaimedCategoryScore({"r_i_glide_emodel", "r_i_glide_energy"})
        /\ SelectedOptional # {} =>
              calculate_optional_score(score.row, score.selected_metrics,
                                       score.weights).score
                  = ClaimedCategoryScore(SelectedOptional)

C18_Witness ==
    /\ score.done
    /\ "r_i_glide_gscore" \notin DOMAIN score.weights
    /\ score.weights["r_i_docking_score"] = Num(3)
    /\ {"r_i_docking_score", "r_i_glide_gscore"} \subseteq DOMAIN score.row
    /\ score.row["r_i_docking_score"] = Zero
    /\ score.row["r_i_glide_gscore"] = One
    /\ score.docking_score = Frac(1, 4)
    /\ "r_i_glide_emodel" \notin DOMAIN score.row
    /\ score.energy_score = One

-----------------------------------------------------------------------------
(* Tie-breaking in the rankings (Spec)                                     *)

\* the rows of one identity, and those of them with the minimum total score
RowsOfIdentity(id) == {i \in DOMAIN normalized_data : ConfIdOf(normalized_data[i]) = id}

MinimalRows(id) ==
    {i \in RowsOfIdentity(id) :
        \A j \in RowsOfIdentity(id) : FLe(RowScore(i).total_score, RowScore(j).total_score)}

NoRepeatedPair ==
    \A i, j \in DOMAIN normalized_data :
        (/\ ConfIdOf(normalized_data[i]) = ConfIdOf(normalized_data[j])
         /\ normalized_data[i].protein_name = normalized_data[j].protein_name) => i = j

\* C19: when several candidate rows of one conformation identity tie on the
\* exact minimum total score, the winner is the candidate whose row is
\* encountered first in the input table.
C19_FirstMinimumWins ==
    Ranked =>
        \A k \in DOMAIN conformation_ranking :
            LET tied == MinimalRows(conformation_ranking[k].conf_id)
            IN  Cardinality(tied) >= 2 =>
                    /\ conformation_ranking[k].raw_data \in tied
                    /\ \A i \in tied : conformation_ranking[k].raw_data <= i
                    /\ conformation_ranking[k].best_protein
                          = normalized_data[conformation_ranking[k].raw_data].protein_name

\* the position at which a protein is first seen as best_protein in the
\* conformation ranking held by the Ranker
FirstSeen(protein) ==
    CHOOSE k \in DOMAIN ranker.conformation_ranking :
        /\ ranker.conformation_ranking[k].best_protein = protein
        /\ \A j \in 1..(k - 1) : ranker.conformation_ranking[j].best_protein # protein

-----------------------------------------------------------------------------
(* Protein statistics                                                      *)

\* the positions of the conformation entries won by a protein
WinsOf(protein) ==
    {k \in DOMAIN ranker.conformation_ranking :
        ranker.conformation_ranking[k].best_protein = protein}

\* the arithmetic mean of one score field over a protein's wins
MeanOverWins(protein, field) ==
    FDiv(FSum([k \in WinsOf(protein) |-> ranker.conformation_ranking[k][field]],
              WinsOf(protein)),
         Num(Cardinality(WinsOf(protein))))

\* C21: for each protein entry, avg_total_score, avg_docking_score and
\* avg_energy_score are the arithmetic means of the total, docking and energy
\* scores of exactly the conformation entries whose best_protein is that
\* protein; entries won by other proteins do not contribute.
C21_MeansOverWins ==
    pc = "done" =>
        \A i \in DOMAIN protein_ranking :
            LET e == protein_ranking[i]
            IN  /\ WinsOf(e.protein_name) # {}
                /\ e.avg_total_score = MeanOverWins(e.protein_name, "total_score")
                /\ e.avg_docking_score = MeanOverWins(e.protein_name, "docking_score")
                /\ e.avg_energy_score = MeanOverWins(e.protein_name, "energy_score")

\* a protein with two wins of different total scores, so its mean is neither
\* of the two
C21_Witness ==
    /\ pc = "done"
    /\ \E i \in DOMAIN protein_ranking :
          /\ protein_ranking[i].best_count = 2
          /\ \E k, l \in WinsOf(protein_ranking[i].protein_name) :
                /\ IsFinite(ranker.conformation_ranking[k].total_score)
                /\ IsFinite(ranker.conformation_ranking[l].total_score)
                /\ ranker.conformation_ranking[k].total_score
                       # ranker.conformation_ranking[l].total_score

-----------------------------------------------------------------------------
(* The stages called on a table the caller keeps a reference to            *)
(* A DataFrame is an object of the heap; a stage receives its reference.   *)

MaxFrameRows == 2   \* rows of the table whose reference is handed to a stage

\* pd.DataFrame(): a new table without rows
NewDataFrame(h) == [heap |-> Append(h, <<>>), ref |-> Len(h) + 1]

\* mutation of DataFrameCopy: no copy, the same object again
DataFrameCopy_Alias(h, ref) == [heap |-> h, ref |-> ref]

\* DataFrame.copy(): a new object with the same rows
DataFrameCopy(h, ref) == [heap |-> Append(h, h[ref]), ref |-> Len(h) + 1]

\* DataProcessor.preprocess_data(data): processed_data = data.copy(), then
\* handle_special_values copies again (result = df.copy()) and writes to its
\* copy; the to_numeric assignments write to that object too
preprocess_data_on(h, data) ==
    IF h[data] = <<>> THEN NewDataFrame(h)
    ELSE LET processed == DataFrameCopy(h, data)
             result == DataFrameCopy(processed.heap, processed.ref)
         IN  [heap |-> [result.heap EXCEPT ![result.ref] = preprocess_data(@)],
              ref |-> result.ref]

\* DataProcessor.normalize_data(data, method): normalized_data = data.copy(),
\* the .loc assignments write to normalized_data
normalize_data_on(h, data, m) ==
    IF h[data] = <<>> THEN NewDataFrame(h)
    ELSE LET normalized == DataFrameCopy(h, data)
         IN  [heap |-> [normalized.heap EXCEPT ![normalized.ref] = normalize_data(@, m)],
              ref |-> normalized.ref]

\* Scorer.score_data(data, ...): scored_data = data.copy(), the three score
\* columns are assigned to scored_data
score_data_on(h, data, selected_metrics, weights, cfg) ==
    IF h[data] = <<>> THEN NewDataFrame(h)
    ELSE LET scored == DataFrameCopy(h, data)
         IN  [heap |-> [scored.heap EXCEPT
                           ![scored.ref] = score_data(@, selected_metrics, weights, cfg)],
              ref |-> scored.ref]

\* the tables handed to a stage: as read, preprocessed, or normalized
FrameTables ==
    LET small == {t \in Tables : Len(t) <= MaxFrameRows}
    IN  small \cup {preprocess_data(t) : t \in small}
              \cup {normalize_data(preprocess_data(t), "min-max") : t \in small}

\* the caller holds the table as object 1; raw keeps its value before the call
InitFrame ==
    /\ pc = "call"
    /\ raw \in FrameTables
    /\ heap = <<raw>>
    /\ config = DefaultScoring
    /\ method = "min-max"
    /\ selected = REQUIRED_METRICS
    /\ processor = [data |-> <<>>, normalized_data |-> <<>>]
    /\ ranker = [conformation_ranking |-> <<>>, protein_ranking |-> <<>>]
    /\ processed_data = <<>>
    /\ normalized_data = <<>>
    /\ conformation_ranking = <<>>
    /\ protein_ranking = <<>>
    /\ col = NoCol
    /\ score = NoScore
    /\ call = NoCall
    /\ NoGui

\* out = processor.preprocess_data(table)
FramePreprocess ==
    /\ pc = "call"
    /\ LET r == preprocess_data_on(heap, 1)
       IN  /\ heap' = r.heap
           /\ call' = [stage |-> "preprocess_data", arg |-> 1, result |-> r.ref]
           /\ processor' = IF heap[1] = <<>> THEN processor
                           ELSE [processor EXCEPT !.data = r.heap[r.ref]]
    /\ pc' = "returned"
    /\ UNCHANGED <<raw, config, method, selected, ranker, processed_data, normalized_data,
                   conformation_ranking, protein_ranking, col, score, guiVars>>

\* out = processor.normalize_data(table, method); z-score is drawn for tables
\* without sentinel docking cells only: the squared deviations of a larger
\* group holding 10000 leave the range of the integer arithmetic
FrameNormalize ==
    /\ pc = "call"
    /\ \E m \in ConfigMethods :
          LET r == normalize_data_on(heap, 1, m)
          IN  /\ m = "z-score" => heap[1] = preprocess_data(heap[1])
              /\ method' = m
              /\ heap' = r.heap
              /\ call' = [stage |-> "normalize_data", arg |-> 1, result |-> r.ref]
              /\ processor' = IF heap[1] = <<>> THEN processor
                              ELSE [processor EXCEPT !.normalized_data = r.heap[r.ref]]
    /\ pc' = "returned"
    /\ UNCHANGED <<raw, config, selected, ranker, processed_data, normalized_data,
                   conformation_ranking, protein_ranking, col, score, guiVars>>

\* out = scorer.score_data(table, selected_metrics, weights)
FrameScoreData ==
    /\ pc = "call"
    /\ \E sel \in SelectedChoices :
          LET r == score_data_on(heap, 1, sel, DefaultWeights, config)
          IN  /\ selected' = sel
              /\ heap' = r.heap
              /\ call' = [stage |-> "score_data", arg |-> 1, result |-> r.ref]
    /\ pc' = "returned"
    /\ UNCHANGED <<raw, config, method, processor, ranker, processed_data, normalized_data,
                   conformation_ranking, protein_ranking, col, score, guiVars>>

NextFrame == FramePreprocess \/ FrameNormalize \/ FrameScoreData

SpecFrame == InitFrame /\ [][NextFrame]_vars

\* C22: no stage mutates its input: preprocess_data, normalize_data and
\* score_data leave the table passed to them unchanged (same rows, same
\* columns, same cell values) and return a new table.
C22_InputUnchanged ==
    (pc = "returned" /\ heap # <<>>) =>
        /\ heap[call.arg] = raw
        /\ call.result # call.arg

\* preprocess_data returned a table that differs from its input (a sentinel
\* was scrubbed), and so did the other two stages (columns were added)
C22_Witness ==
    /\ pc = "returned"
    /\ heap # <<>>
    /\ call.stage = "preprocess_data"
    /\ heap[call.result] # raw

-----------------------------------------------------------------------------
(* Zero category weights                                                   *)

\* C25: calculate_composite_score returns a result and raises no error for all
\* non-negative category weights, including docking_weight = energy_weight = 0
\* when no optional metric is selected.
C25_NoErrorForZeroWeights ==
    score.done => score.st = "ok"

-----------------------------------------------------------------------------
(* The scorer under configured category weights                            *)

\* the "scoring" section as a user may configure it: non-negative weights
ScoringConfigs ==
    {[docking_weight |-> dw, energy_weight |-> ew, optional_weight |-> ow,
      normalization_method |-> "min-max"] :
        dw \in CatWeights, ew \in CatWeights, ow \in CatWeights}

\* normalized tables handed to the scorer
CfgTables ==
    {normalize_data(preprocess_data(t), "min-max") :
        t \in {u \in Tables : Len(u) <= MaxFrameRows}}

InitCfg ==
    /\ pc = "call"
    /\ raw = <<>>
    /\ config \in ScoringConfigs
    /\ method = "min-max"
    /\ selected = REQUIRED_METRICS
    /\ processor = [data |-> <<>>, normalized_data |-> <<>>]
    /\ ranker = [conformation_ranking |-> <<>>, protein_ranking |-> <<>>]
    /\ processed_data = <<>>
    /\ normalized_data \in CfgTables
    /\ conformation_ranking = <<>>
    /\ protein_ranking = <<>>
    /\ col = NoCol
    /\ score = NoScore
    /\ call = NoCall
    /\ heap = <<>>
    /\ NoGui

\* scorer.score_data(normalized_data, selected_metrics, weights)
CfgScoreData ==
    /\ pc = "call"
    /\ \E sel \in SelectedChoices :
          /\ selected' = sel
          /\ call' = [stage |-> "score_data", arg |-> "data",
                      result |-> score_data(normalized_data, sel, DefaultWeights, config)]
    /\ pc' = "returned"
    /\ UNCHANGED <<raw, config, method, processor, ranker, processed_data, normalized_data,
                   conformation_ranking, protein_ranking, col, score, heap, guiVars>>

\* scorer.score_conformation_protein_pairs(normalized_data, selected_metrics, weights)
CfgScorePairs ==
    /\ pc = "call"
    /\ \E sel \in SelectedChoices :
          /\ selected' = sel
          /\ call' = [stage |-> "score_conformation_protein_pairs", arg |-> "data",
                      result |-> score_conformation_protein_pairs(normalized_data, sel,
                                     DefaultWeights, config)]
    /\ pc' = "returned"
    /\ UNCHANGED <<raw, config, method, processor, ranker, processed_data, normalized_data,
                   conformation_ranking, protein_ranking, col, score, heap, guiVars>>

NextCfg == CfgScoreData \/ CfgScorePairs

SpecCfg == InitCfg /\ [][NextCfg]_vars

\* the scores of row i under the category weights exactly as configured
ConfiguredScore(i) ==
    calculate_composite_score(normalized_data[i].norm, selected, DefaultWeights,
        config.docking_weight, config.energy_weight, config.optional_weight)

\* C24: Scorer.score_data and score_conformation_protein_pairs score with the
\* configured category weights for every non-negative configured value,
\* including 0: a category weight configured as 0 gives that category no
\* influence on the total score.
C24_ConfiguredWeightsUsed ==
    /\ (pc = "returned" /\ call.stage = "score_data") =>
          \A i \in DOMAIN call.result :
              ConfiguredScore(i).st = "ok" =>
                  call.result[i].total_score = ConfiguredScore(i).total_score
    /\ (pc = "returned" /\ call.stage = "score_conformation_protein_pairs") =>
          \A c \in DOMAIN call.result : \A p \in DOMAIN call.result[c].v :
              LET entry == call.result[c].v[p].v
              IN  ConfiguredScore(entry.raw_data).st = "ok" =>
                      entry.total_score = ConfiguredScore(entry.raw_data).total_score

\* with no category weight configured as 0 the configured weights are used
NoZeroCategoryWeight ==
    /\ config.docking_weight # Zero
    /\ config.energy_weight # Zero
    /\ config.optional_weight # Zero

-----------------------------------------------------------------------------
(* One DataProcessor used for several calls                                *)

\* the tables handed to preprocess_data, the empty table included
ProcTables == {t \in Tables : Len(t) <= MaxRankRows}

InitProc ==
    /\ pc = "new"
    /\ raw = <<>>
    /\ config = DefaultScoring
    /\ method = "min-max"
    /\ selected = REQUIRED_METRICS
    /\ processor = [data |-> <<>>, normalized_data |-> <<>>]
    /\ ranker = [conformation_ranking |-> <<>>, protein_ranking |-> <<>>]
    /\ processed_data = <<>>
    /\ normalized_data = <<>>
    /\ conformation_ranking = <<>>
    /\ protein_ranking = <<>>
    /\ col = NoCol
    /\ score = NoScore
    /\ call = NoCall
    /\ heap = <<>>
    /\ NoGui

\* processed_data = processor.preprocess_data(data), on the same processor
ProcPreprocess ==
    /\ \E t \in ProcTables : raw' = t
    /\ processed_data' = preprocess_data(raw')
    /\ processor' = IF raw' = <<>> THEN processor
                    ELSE [processor EXCEPT !.data = processed_data']
    /\ call' = [stage |-> "preprocess_data", arg |-> "data", result |-> processed_data']
    /\ pc' = "preprocessed"
    /\ UNCHANGED <<config, method, selected, ranker, normalized_data,
                   conformation_ranking, protein_ranking, col, score, heap, guiVars>>

\* normalized_data = processor.normalize_data(method=...), without a table
ProcNormalize ==
    /\ \E m \in ConfigMethods : method' = m
    /\ normalized_data' = normalize_data(DataOrSelf(processor.data, "None"), method')
    /\ processor' = IF DataOrSelf(processor.data, "None") = <<>> THEN processor
                    ELSE [processor EXCEPT !.normalized_data = normalized_data']
    /\ call' = [stage |-> "normalize_data", arg |-> "None", result |-> normalized_data']
    /\ pc' = "normalized"
    /\ UNCHANGED <<raw, config, selected, ranker, processed_data,
                   conformation_ranking, protein_ranking, col, score, heap, guiVars>>

NextProc == ProcPreprocess \/ ProcNormalize

SpecProc == InitProc /\ [][NextProc]_vars

\* C30: on one DataProcessor, normalize_data called without a table normalizes
\* the result of the most recent preprocess_data call: if the latest call was
\* given empty input (and returned an empty table), normalize_data() returns
\* an empty table and never the table of an earlier call.
C30_LatestPreprocessNormalized ==
    call.stage = "normalize_data" =>
        /\ call.result = normalize_data(processed_data, method)
        /\ raw = <<>> => call.result = <<>>

-----------------------------------------------------------------------------
(* The GUI (src/src/ui/gui/main_window.py)                                 *)
(* The main thread runs the MainWindow handlers one at a time; a           *)
(* WorkerThread runs the pipeline and emits signals, which are queued and  *)
(* delivered to the window's slots by the main thread, in emission order.  *)
(* The worker holds the window's selected_metrics list and weights dict by *)
(* reference (objects of the heap) and reads the global config when a      *)
(* stage needs it.                                                         *)

MaxRuns == 2        \* WorkerThread objects created in one session
MaxEdits == 1       \* changes of the settings made in the window in one session
MaxPending == 2     \* emitted signals waiting for the main thread

\* the table read from an input directory with CSV files: two poses of
\* protein B, the second one failed (sentinel 10000 in both docking metrics)
GuiTable ==
    <<[title |-> 1, lignum |-> 1, protein_name |-> "B", norm |-> <<>>,
       vals |-> Vals(Num(1), Num(1), Num(1), Num(1), Num(1))],
      [title |-> 1, lignum |-> 2, protein_name |-> "B", norm |-> <<>>,
       vals |-> Vals(Num(special_value), Num(special_value), NaN, NaN, Num(special_value))]>>

\* the directory the user may pick
InputDirs == {"data_dir"}

\* DataReader.read_directory(directory), by what the directory holds when it is
\* read: (None, {}) when it is no directory or holds no readable CSV file
read_directory(directory, has_csv) ==
    IF directory = "data_dir" /\ has_csv THEN [none |-> FALSE, data |-> GuiTable]
    ELSE [none |-> TRUE, data |-> <<>>]

\* helpers.is_valid_directory(path)
is_valid_directory(path) == path # ""

\* mutation of Milestones: the values of two stages exchanged
Milestones_Exchanged ==
    [read |-> 10, preprocess |-> 30, normalize |-> 70, rank_conformations |-> 50,
     rank_proteins |-> 80, write |-> 90, finish |-> 100]

\* the values handed to progress_signal.emit, by stage of WorkerThread.run
Milestones ==
    [read |-> 10, preprocess |-> 30, normalize |-> 50, rank_conformations |-> 70,
     rank_proteins |-> 80, write |-> 90, finish |-> 100]

\* the spin box values update_scoring_weights may find
SpinValues == {<<One, Frac(1, 2), Frac(1, 2)>>}

\* MainWindow.__init__: selected_metrics = REQUIRED_METRICS.copy() is object 1
\* of the heap and weights = config.get_metrics_weights() is object 2. box is
\* the modal message box shown by the handler that ran last ("none" when it
\* showed none); edits is not a field of the window, it counts the changes of
\* the settings. The progress bar and the status label are left out: no
\* handler reads them.
NewWindow ==
    [started |-> TRUE, input_dir |-> "", output_dir |-> "",
     selected_metrics |-> 1, weights |-> 2, worker_thread |-> 0,
     conformation_ranking |-> <<>>, protein_ranking |-> <<>>,
     run_button |-> FALSE, box |-> "none", edits |-> 0]

\* WorkerThread.__init__(input_dir, output_dir, selected_metrics, weights):
\* the two last arguments are stored as they are, references to the caller's
\* list and dict. started_with is not a field of the object: it records the
\* configuration in effect when run_processing created the worker.
NewWorker(input_dir, output_dir, selected_metrics, weights) ==
    [running |-> FALSE, pc |-> "read",
     input_dir |-> input_dir, output_dir |-> output_dir,
     selected_metrics |-> selected_metrics, weights |-> weights,
     data |-> <<>>, processed_data |-> <<>>, normalized_data |-> <<>>,
     conformation_ranking |-> <<>>, protein_ranking |-> <<>>,
     method |-> "none", scored_metrics |-> <<>>, written_metrics |-> <<>>,
     written |-> <<>>, progress |-> <<>>, terminal |-> <<>>,
     started_with |-> [selected_metrics |-> heap[selected_metrics],
                       weights |-> heap[weights], config |-> config]]

\* self.worker_thread = WorkerThread(...) drops the window's reference to the
\* previous worker: a worker that has stopped is then garbage, and what it
\* held is gone; a worker still running keeps running
Collected(th) ==
    IF th.running THEN th
    ELSE [th EXCEPT !.pc = "collected", !.data = <<>>, !.processed_data = <<>>,
                    !.normalized_data = <<>>, !.conformation_ranking = <<>>,
                    !.protein_ranking = <<>>, !.method = "none",
                    !.scored_metrics = <<>>, !.written_metrics = <<>>,
                    !.written = <<>>, !.progress = <<>>, !.terminal = <<>>,
                    !.started_with = [selected_metrics |-> <<>>, weights |-> <<>>,
                                      config |-> <<>>]]

\* mutation of IsRunning: the check of run_processing never sees a running worker
IsRunning_Never(worker_thread) == FALSE

\* self.worker_thread and self.worker_thread.isRunning()
IsRunning(worker_thread) == worker_thread # 0 /\ threads[worker_thread].running

InitGui ==
    /\ pc = "gui"
    /\ raw = <<>>
    /\ config = DefaultScoring
    /\ method = "min-max"
    /\ selected = REQUIRED_METRICS
    /\ processor = [data |-> <<>>, normalized_data |-> <<>>]
    /\ ranker = [conformation_ranking |-> <<>>, protein_ranking |-> <<>>]
    /\ processed_data = <<>>
    /\ normalized_data = <<>>
    /\ conformation_ranking = <<>>
    /\ protein_ranking = <<>>
    /\ col = NoCol
    /\ score = NoScore
    /\ call = NoCall
    /\ heap = <<REQUIRED_METRICS, DefaultWeights>>
    /\ window = NewWindow
    /\ threads = <<>>
    /\ events = <<>>

\* one more change of the settings
Edited(w) == [w EXCEPT !.edits = @ + 1, !.box = "none"]

\* the variables no GUI handler and no worker step touches
cliVars ==
    <<pc, raw, method, selected, processor, ranker, processed_data, normalized_data,
      conformation_ranking, protein_ranking, col, score, call>>

\* MainWindow.update_ui_state
update_ui_state(w) ==
    [w EXCEPT !.run_button = is_valid_directory(w.input_dir) /\ is_valid_directory(w.output_dir)]

\* MainWindow.browse_input_dir, a directory chosen
BrowseInputDir ==
    /\ window.started
    /\ \E d \in InputDirs : window' = update_ui_state([window EXCEPT !.input_dir = d, !.box = "none"])
    /\ UNCHANGED <<cliVars, config, heap, threads, events>>

\* MainWindow.browse_output_dir, a directory chosen
BrowseOutputDir ==
    /\ window.started
    /\ window' = update_ui_state([window EXCEPT !.output_dir = "out_dir", !.box = "none"])
    /\ UNCHANGED <<cliVars, config, heap, threads, events>>

\* list.remove(x)
RECURSIVE ListRemove(_, _)
ListRemove(xs, x) ==
    IF xs = <<>> THEN <<>>
    ELSE IF Head(xs) = x THEN Tail(xs)
    ELSE <<Head(xs)>> \o ListRemove(Tail(xs), x)

\* MainWindow.toggle_metric(metric, state): the list is changed in place
ToggleMetric ==
    /\ window.started
    /\ window.edits < MaxEdits
    /\ window' = Edited(window)
    /\ \E checked \in BOOLEAN :
          LET xs == heap[window.selected_metrics]
          IN  heap' = [heap EXCEPT ![window.selected_metrics] =
                          IF checked
                          THEN (IF hbond \in Range(xs) THEN xs ELSE Append(xs, hbond))
                          ELSE (IF hbond \in Range(xs) THEN ListRemove(xs, hbond) ELSE xs)]
    /\ UNCHANGED <<cliVars, config, threads, events>>

\* MainWindow.update_weight(metric, value): the dict is changed in place
UpdateWeight ==
    /\ window.started
    /\ window.edits < MaxEdits
    /\ window' = Edited(window)
    /\ \E value \in {Num(3)} :
          heap' = [heap EXCEPT ![window.weights] =
                      [@ EXCEPT !["r_i_docking_score"] = value]]
    /\ UNCHANGED <<cliVars, config, threads, events>>

\* MainWindow.update_scoring_weights: the spin values, divided by their sum
\* when it is not 1 (within 0.01), go to the global config
UpdateScoringWeights ==
    /\ window.started
    /\ window.edits < MaxEdits
    /\ window' = Edited(window)
    /\ \E v \in SpinValues :
          LET total == FAdd(FAdd(v[1], v[2]), v[3])
              off == FLt(Frac(1, 100), FSub(total, One)) \/ FLt(Frac(1, 100), FSub(One, total))
          IN  config' = [config EXCEPT
                            !.docking_weight = IF off THEN FDiv(v[1], total) ELSE v[1],
                            !.energy_weight = IF off THEN FDiv(v[2], total) ELSE v[2],
                            !.optional_weight = IF off THEN FDiv(v[3], total) ELSE v[3]]
    /\ UNCHANGED <<cliVars, heap, threads, events>>

\* MainWindow.update_normalization_method(method)
UpdateNormalizationMethod ==
    /\ window.started
    /\ window.edits < MaxEdits
    /\ window' = Edited(window)
    /\ \E m \in ConfigMethods : config' = [config EXCEPT !.normalization_method = m]
    /\ UNCHANGED <<cliVars, heap, threads, events>>

\* MainWindow.run_processing, on a click of the enabled run button; the number
\* of workers created is capped at MaxRuns
RunProcessing ==
    /\ window.started
    /\ window.run_button
    /\ IF IsRunning(window.worker_thread)
       THEN /\ window' = [window EXCEPT !.box = "warning"]
            /\ UNCHANGED <<threads>>
       ELSE IF ~is_valid_directory(window.input_dir)
       THEN /\ window' = [window EXCEPT !.box = "critical"]
            /\ UNCHANGED <<threads>>
       ELSE /\ Len(threads) < MaxRuns
            /\ threads' = Append([j \in DOMAIN threads |-> Collected(threads[j])],
                              [NewWorker(window.input_dir, window.output_dir,
                                         window.selected_metrics, window.weights)
                                  EXCEPT !.running = TRUE])
            /\ window' = [window EXCEPT !.worker_thread = Len(threads) + 1,
                                        !.run_button = FALSE, !.box = "none"]
    /\ UNCHANGED <<cliVars, config, heap, events>>

\* the main thread delivers the oldest queued signal to its slot:
\* update_progress, show_error or process_finished
Deliver ==
    /\ window.started
    /\ events # <<>>
    /\ LET e == Head(events)
       IN  window' =
              IF e.signal = "progress" THEN [window EXCEPT !.box = "none"]
              ELSE IF e.signal = "error"
              THEN [window EXCEPT !.box = "critical", !.run_button = TRUE]
              ELSE [window EXCEPT !.conformation_ranking = e.value.conformation_ranking,
                                  !.protein_ranking = e.value.protein_ranking,
                                  !.box = "information", !.run_button = TRUE]
    /\ events' = Tail(events)
    /\ UNCHANGED <<cliVars, config, heap, threads>>

\* progress_signal.emit(value) (with the status_signal of the same stage):
\* the signal is queued for the main thread
EmitProgress(q, i, stage) ==
    Append(q, [thread |-> i, signal |-> "progress", value |-> Milestones[stage]])

\* the main thread has kept up well enough for n more signals to be queued
CanEmit(n) == Len(events) + n <= MaxPending

\* error_signal.emit(message)
EmitError(q, i) == Append(q, [thread |-> i, signal |-> "error", value |-> 0])

\* the worker's record of a progress value it has emitted
Progressed(th, stage) == [th EXCEPT !.progress = Append(@, Milestones[stage])]

\* WorkerThread.run: progress 10, reader.read_directory; data is None ends the
\* run with error_signal
WorkerRead ==
    \E i \in DOMAIN threads :
        /\ threads[i].running /\ threads[i].pc = "read"
        /\ CanEmit(2)
        /\ \E has_csv \in BOOLEAN :
           LET th == Progressed(threads[i], "read")
               r == read_directory(th.input_dir, has_csv)
           IN  IF r.none
               THEN /\ threads' = [threads EXCEPT ![i] =
                                      [th EXCEPT !.terminal = Append(@, "error"),
                                                 !.pc = "returned"]]
                    /\ events' = EmitError(EmitProgress(events, i, "read"), i)
               ELSE /\ threads' = [threads EXCEPT ![i] =
                                      [th EXCEPT !.data = r.data, !.pc = "preprocess"]]
                    /\ events' = EmitProgress(events, i, "read")
        /\ UNCHANGED <<cliVars, config, heap, window>>

\* progress 30, processor.preprocess_data(data)
WorkerPreprocess ==
    \E i \in DOMAIN threads :
        /\ threads[i].running /\ threads[i].pc = "preprocess"
        /\ CanEmit(1)
        /\ threads' = [threads EXCEPT ![i] =
                          [Progressed(threads[i], "preprocess") EXCEPT
                              !.processed_data = preprocess_data(threads[i].data),
                              !.pc = "normalize"]]
        /\ events' = EmitProgress(events, i, "preprocess")
        /\ UNCHANGED <<cliVars, config, heap, window>>

\* progress 50, the method read from the global config now,
\* processor.normalize_data(processed_data, normalization_method)
WorkerNormalize ==
    \E i \in DOMAIN threads :
        /\ threads[i].running /\ threads[i].pc = "normalize"
        /\ CanEmit(1)
        /\ threads' = [threads EXCEPT ![i] =
                          [Progressed(threads[i], "normalize") EXCEPT
                              !.method = config.normalization_method,
                              !.normalized_data =
                                  normalize_data(threads[i].processed_data,
                                                 config.normalization_method),
                              !.pc = "rank_conformations"]]
        /\ events' = EmitProgress(events, i, "normalize")
        /\ UNCHANGED <<cliVars, config, heap, window>>

\* progress 70, ranker.rank_conformations(normalized_data, self.selected_metrics,
\* self.weights): the list and the dict as they are now, and the category
\* weights of the global config as they are now
WorkerRankConformations ==
    \E i \in DOMAIN threads :
        /\ threads[i].running /\ threads[i].pc = "rank_conformations"
        /\ CanEmit(1)
        /\ threads' = [threads EXCEPT ![i] =
                          [Progressed(threads[i], "rank_conformations") EXCEPT
                              !.scored_metrics = heap[threads[i].selected_metrics],
                              !.conformation_ranking =
                                  rank_conformations(threads[i].normalized_data,
                                      heap[threads[i].selected_metrics],
                                      heap[threads[i].weights], config),
                              !.pc = "rank_proteins"]]
        /\ events' = EmitProgress(events, i, "rank_conformations")
        /\ UNCHANGED <<cliVars, config, heap, window>>

\* progress 80, ranker.rank_proteins()
WorkerRankProteins ==
    \E i \in DOMAIN threads :
        /\ threads[i].running /\ threads[i].pc = "rank_proteins"
        /\ CanEmit(1)
        /\ threads' = [threads EXCEPT ![i] =
                          [Progressed(threads[i], "rank_proteins") EXCEPT
                              !.protein_ranking = rank_proteins(threads[i].conformation_ranking),
                              !.pc = "write_conformations"]]
        /\ events' = EmitProgress(events, i, "rank_proteins")
        /\ UNCHANGED <<cliVars, config, heap, window>>

\* progress 90, writer.write_conformation_ranking(conformation_ranking, file,
\* self.selected_metrics): the list as it is now; the returned flag (False when
\* the file could not be written) is dropped
WorkerWriteConformations ==
    \E i \in DOMAIN threads :
        /\ threads[i].running /\ threads[i].pc = "write_conformations"
        /\ CanEmit(1)
        /\ \E ok \in BOOLEAN :
              threads' = [threads EXCEPT ![i] =
                             [Progressed(threads[i], "write") EXCEPT
                                 !.written_metrics = heap[threads[i].selected_metrics],
                                 !.written = Append(@, ok),
                                 !.pc = "write_proteins"]]
        /\ events' = EmitProgress(events, i, "write")
        /\ UNCHANGED <<cliVars, config, heap, window>>

\* writer.write_protein_ranking(protein_ranking, file); the returned flag is dropped
WorkerWriteProteins ==
    \E i \in DOMAIN threads :
        /\ threads[i].running /\ threads[i].pc = "write_proteins"
        /\ \E ok \in BOOLEAN :
              threads' = [threads EXCEPT ![i] =
                             [threads[i] EXCEPT !.written = Append(@, ok), !.pc = "finish"]]
        /\ UNCHANGED <<cliVars, config, heap, window, events>>

\* progress 100, finished_signal.emit(result)
WorkerFinish ==
    \E i \in DOMAIN threads :
        /\ threads[i].running /\ threads[i].pc = "finish"
        /\ CanEmit(2)
        /\ threads' = [threads EXCEPT ![i] =
                          [Progressed(threads[i], "finish") EXCEPT
                              !.terminal = Append(@, "finished"), !.pc = "returned"]]
        /\ events' = Append(EmitProgress(events, i, "finish"),
                            [thread |-> i, signal |-> "finished",
                             value |-> [conformation_ranking |-> threads[i].conformation_ranking,
                                        protein_ranking |-> threads[i].protein_ranking]])
        /\ UNCHANGED <<cliVars, config, heap, window>>

\* except Exception: a call of the try block raises (the reader, the processor
\* and the ranker do not catch everything; the writer does): the stage's
\* progress was emitted before the call, then error_signal.emit
WorkerRaise ==
    \E i \in DOMAIN threads :
        /\ threads[i].running
        /\ CanEmit(2)
        /\ threads[i].pc \in {"read", "preprocess", "normalize", "rank_conformations",
                              "rank_proteins"}
        /\ threads' = [threads EXCEPT ![i] =
                          [Progressed(threads[i], threads[i].pc) EXCEPT
                              !.terminal = Append(@, "error"), !.pc = "returned"]]
        /\ events' = EmitError(EmitProgress(events, i, threads[i].pc), i)
        /\ UNCHANGED <<cliVars, config, heap, window>>

\* run() has returned: its local variables are gone and the thread is no
\* longer running
WorkerReturn ==
    \E i \in DOMAIN threads :
        /\ threads[i].running /\ threads[i].pc = "returned"
        /\ threads' = [threads EXCEPT ![i] =
                          [threads[i] EXCEPT !.running = FALSE, !.data = <<>>,
                                             !.processed_data = <<>>, !.normalized_data = <<>>,
                                             !.conformation_ranking = <<>>,
                                             !.protein_ranking = <<>>, !.method = "none"]]
        /\ UNCHANGED <<cliVars, config, heap, window, events>>

NextGui ==
    \/ BrowseInputDir \/ BrowseOutputDir \/ ToggleMetric \/ UpdateWeight
    \/ UpdateScoringWeights \/ UpdateNormalizationMethod \/ RunProcessing \/ Deliver
    \/ WorkerRead \/ WorkerPreprocess \/ WorkerNormalize \/ WorkerRankConformations
    \/ WorkerRankProteins \/ WorkerWriteConformations \/ WorkerWriteProteins
    \/ WorkerFinish \/ WorkerRaise \/ WorkerReturn

SpecGui == InitGui /\ [][NextGui]_vars


\* the workers whose records exist (a stopped worker replaced by a new one is gone)
Workers == {i \in DOMAIN threads : threads[i].pc # "collected"}

\* C26: in every run of the worker thread the progress values emitted so far
\* are the first values of 10, 30, 50, 70, 80, 90, 100 in that order; no
\* terminal signal is emitted before the run ends and exactly one has been
\* emitted when it has ended; finished_signal comes only after progress 100
C26_ProgressAndTerminal ==
    \A i \in Workers :
        LET th == threads[i]
            all == <<10, 30, 50, 70, 80, 90, 100>>
        IN  /\ Len(th.progress) <= Len(all)
            /\ th.progress = SubSeq(all, 1, Len(th.progress))
            /\ Len(th.terminal) = (IF th.pc = "returned" THEN 1 ELSE 0)
            /\ Range(th.terminal) \subseteq {"error", "finished"}
            /\ th.terminal = <<"finished">> => th.progress = all

\* a run that ended with finished_signal, and the window has been told
C26_Witness ==
    /\ \E i \in Workers : threads[i].terminal = <<"finished">> /\ ~threads[i].running
    /\ window.box = "information"

\* a run that ended with error_signal after some progress
C26_WitnessError ==
    \E i \in Workers : threads[i].terminal = <<"error">> /\ Len(threads[i].progress) > 1

\* the workers that are running
Running == {i \in DOMAIN threads : threads[i].running}

\* C27: at most one worker thread is running at any time, and run_processing
\* called while a worker is running creates no worker, changes no worker and
\* leaves the rankings stored in the window as they are
C27_SingleWorker ==
    [][/\ Cardinality(Running') <= 1
       /\ (RunProcessing /\ Running # {}) =>
             /\ threads' = threads
             /\ window'.worker_thread = window.worker_thread
             /\ window'.conformation_ranking = window.conformation_ranking
             /\ window'.protein_ranking = window.protein_ranking]_vars

\* the run button was enabled again while the worker was running, and the
\* click was answered by the warning
C27_Witness ==
    /\ IsRunning(window.worker_thread)
    /\ threads[window.worker_thread].pc # "returned"
    /\ window.run_button
    /\ window.box = "warning"

\* C28: a run normalizes with the method, scores with the metrics, metric
\* weights and category weights, and writes the metrics, that were in effect
\* when run_processing started it
C28_StartConfigurationUsed ==
    \A i \in Workers :
        LET th == threads[i]
            at == th.started_with
        IN  /\ th.method # "none" => th.method = at.config.normalization_method
            /\ th.scored_metrics # <<>> =>
                  /\ th.scored_metrics = at.selected_metrics
                  /\ th.conformation_ranking =
                        rank_conformations(th.normalized_data, at.selected_metrics,
                                           at.weights, at.config)
            /\ th.written_metrics # <<>> =>
                  /\ th.written_metrics = at.selected_metrics
                  /\ th.written_metrics = th.scored_metrics

\* C28, the last part alone: the metrics written to the report are the metrics
\* that were used for scoring
C28_WrittenAreScored ==
    \A i \in Workers :
        threads[i].written_metrics # <<>> =>
            threads[i].written_metrics = threads[i].scored_metrics

\* C29: a run ends with finished_signal only if both ranking files were
\* written, and a run in which a write failed ends with error_signal
C29_CompletedOnlyIfWritten ==
    \A i \in Workers :
        LET th == threads[i]
        IN  /\ th.terminal = <<"finished">> => th.written = <<TRUE, TRUE>>
            /\ (th.pc = "returned" /\ FALSE \in Range(th.written)) => th.terminal = <<"error">>


-----------------------------------------------------------------------------
(* Every pipeline run: run_cli (src/src/ui/cli.py) and the GUI worker      *)

NextRuns == Next \/ NextGui

SpecRuns == (Init \/ InitGui) /\ [][NextRuns]_vars

\* a docking column of one protein group as read, the sentinel cells left out
WithoutSentinel(table, protein, metric) ==
    LET group == GroupColumn(table, protein, metric)
    IN  [j \in DOMAIN group |-> IF group[j] = Num(special_value) THEN NaN ELSE group[j]]

\* the normalized docking cells of the table are those computed from the
\* groups of the table read with the sentinel cells left out
SentinelFree(table, normalized, m) ==
    /\ Len(normalized) = Len(table)
    /\ \A metric \in Range(DOCKING_METRICS) :
          \A protein \in {table[i].protein_name : i \in 1..Len(table)} :
              LET clean == WithoutSentinel(table, protein, metric)
                  out == IF NotNa(clean) # {} THEN normalize_metric(clean, m)
                         ELSE [i \in DOMAIN clean |-> NaN]
              IN  \A i \in Group(table, protein) :
                      metric \in DOMAIN normalized[i].norm =>
                          normalized[i].norm[metric] = out[i]

\* a row whose cell of a docking metric is the sentinel, in a protein group
\* that has a value of that metric
SentinelBesideValue(table) ==
    \E i, j \in 1..Len(table) :
        \E metric \in Range(DOCKING_METRICS) :
            /\ table[i].protein_name = table[j].protein_name
            /\ table[i].vals[metric] = Num(special_value)
            /\ ~IsNaN(table[j].vals[metric])
            /\ table[j].vals[metric] # Num(special_value)

C23_WitnessGui ==
    \E i \in Workers :
        /\ threads[i].pc = "rank_conformations"
        /\ SentinelBesideValue(threads[i].data)

====
